---- MODULE Spec2Model ----
(***************************************************************************)
(* A model of the 6502 interpreter of nes_emulator: the CPU struct of      *)
(* src/cpu.rs, the instruction handlers of src/cpu/instructions.rs, the    *)
(* opcode table of src/cpu/opcode_array.rs and the status register of      *)
(* src/cpu/cpuflags.rs.                                                    *)
(*                                                                         *)
(* The struct CPU is a record (Self); every method is an operator from a   *)
(* CPU record to the CPU record it leaves.  A Rust panic (array index out  *)
(* of bounds, todo!(), unwrap_or_else(panic!), checked arithmetic) leaves  *)
(* the record as it was at the panic with halt = "panic".                  *)
(*                                                                         *)
(* memory: [u8; 0xFFFF] is held by its non-zero bytes: a function from the *)
(* addresses holding a non-zero byte to that byte; every other index below *)
(* MEM_LEN holds 0.                                                        *)
(***************************************************************************)
EXTENDS Integers, Sequences, FiniteSets, TLC

VARIABLES
    register_a,       \* CPU.register_a: u8
    register_x,       \* CPU.register_x: u8
    register_y,       \* CPU.register_y: u8
    status,           \* CPU.status: CpuFlags (its bits)
    program_counter,  \* CPU.program_counter: u16
    stack_ptr,        \* CPU.stack_ptr: u8
    memory,           \* CPU.memory: [u8; 0xFFFF]
    halt,             \* how the last call ended: "none", "brk" (run returned), "panic"
    failure,          \* the panic of the last call: "none" or what the panic reports
    observer_calls,   \* how often this run has called its observer
    stop_signal,      \* the observer has raised its stop signal
    stack_log,        \* the stack accesses of the last call, in order
    phase,            \* where the host is: "new", "loaded", "ready", "running", "returned", "panicked"
    overflow_checks,  \* the build: TRUE when integer overflow panics (debug), FALSE when it wraps (release)
    input,            \* the host's plan: its calls before load, the program, its writes after load
    calls_done,       \* how many of the plan's calls before and after load are done
    resets,           \* number of reset() calls so far
    last_call,        \* the last call made: "new", "mem_write", "msb_to_carry_flag", "load", "reset", "step"
    mem_before,       \* memory as it was before the last call
    hist              \* one record per loop iteration since the last reset

vars == <<register_a, register_x, register_y, status, program_counter, stack_ptr,
          memory, halt, failure, observer_calls, stop_signal, stack_log, phase,
          overflow_checks, input, calls_done, resets, last_call, mem_before, hist>>

----------------------------------------------------------------------------
(* Bounds of the model *)

\* loop iterations explored after a reset
MaxSteps == 8
\* reset() calls explored in one run of the host
MaxResets == 2
MaxStackOps == 5
\* sampled byte values are the multiples of ByteStride together with the edge values
ByteStride == 51

----------------------------------------------------------------------------
(* Machine integers *)

U8 == 256
U16 == 65536
PANIC == -1

Byte == 0 .. 255

Bit(v, i) == (v \div (2 ^ i)) % 2

\* u8 & u8
BitAnd(a, b) ==
    Bit(a, 0) * Bit(b, 0) + 2 * (Bit(a, 1) * Bit(b, 1)) + 4 * (Bit(a, 2) * Bit(b, 2))
    + 8 * (Bit(a, 3) * Bit(b, 3)) + 16 * (Bit(a, 4) * Bit(b, 4)) + 32 * (Bit(a, 5) * Bit(b, 5))
    + 64 * (Bit(a, 6) * Bit(b, 6)) + 128 * (Bit(a, 7) * Bit(b, 7))

\* u8 ^ u8
BitXor(a, b) ==
    ((Bit(a, 0) + Bit(b, 0)) % 2) + 2 * ((Bit(a, 1) + Bit(b, 1)) % 2)
    + 4 * ((Bit(a, 2) + Bit(b, 2)) % 2) + 8 * ((Bit(a, 3) + Bit(b, 3)) % 2)
    + 16 * ((Bit(a, 4) + Bit(b, 4)) % 2) + 32 * ((Bit(a, 5) + Bit(b, 5)) % 2)
    + 64 * ((Bit(a, 6) + Bit(b, 6)) % 2) + 128 * ((Bit(a, 7) + Bit(b, 7)) % 2)

\* u8 | u8
BitOr(a, b) == a + b - BitAnd(a, b)

\* u16::from_le_bytes([lo, hi])
from_le_bytes(lo, hi) == lo + 256 * hi

\* u16::to_le_bytes: the low and the high byte
to_le_bytes(w) == [low |-> w % 256, high |-> w \div 256]

\* i8::from_le_bytes([data]): the byte read as two's complement
i8_from_le_bytes(data) == IF data >= 128 THEN data - 256 ELSE data

\* i8::to_le_bytes: the byte of a two's-complement value in -128..127
i8_to_le_bytes(v) == (v + 256) % 256

\* i8::wrapping_neg
i8_wrapping_neg(v) == IF v = -128 THEN -128 ELSE 0 - v

\* i8::wrapping_sub
i8_wrapping_sub(v, w) == i8_from_le_bytes((v - w + 512) % 256)

\* u8::wrapping_add, u8::wrapping_sub
u8_wrapping_add(a, b) == (a + b) % U8
u8_wrapping_sub(a, b) == (a - b + U8) % U8

\* u16::wrapping_add, u16::wrapping_add_signed
u16_wrapping_add(a, b) == (a + b) % U16
u16_wrapping_add_signed(a, d) == (a + d + U16) % U16

\* the operators + and - on u16: a panic when the build checks overflow, a wrap otherwise
u16_add(checks, a, b) ==
    IF a + b >= U16 THEN (IF checks THEN PANIC ELSE (a + b) % U16) ELSE a + b
u16_sub(checks, a, b) ==
    IF a - b < 0 THEN (IF checks THEN PANIC ELSE (a - b + U16) % U16) ELSE a - b

----------------------------------------------------------------------------
(* cpu/cpuflags.rs *)

CARRY == 1
ZERO == 2
INTERUPT_DISABLE == 4
DECIMAL_MODE == 8
BREAK == 16
BREAK2 == 32
OVERFLOW == 64
NEGATIV == 128

\* const INIT = Self::BREAK2.bits | Self::CARRY.bits
INIT == BitOr(BREAK2, CARRY)

\* impl Default for CpuFlags
CpuFlags_default == INIT

\* every bit a flag of CpuFlags names
CpuFlags_all ==
    BitOr(CARRY, BitOr(ZERO, BitOr(INTERUPT_DISABLE, BitOr(DECIMAL_MODE,
        BitOr(BREAK, BitOr(BREAK2, BitOr(OVERFLOW, BitOr(NEGATIV, INIT))))))))

\* CpuFlags::contains
contains(bits, flag) == BitAnd(bits, flag) = flag

\* CpuFlags::insert
insert(bits, flag) == BitOr(bits, flag)

\* CpuFlags::remove
remove(bits, flag) == BitAnd(bits, 255 - flag)

\* CpuFlags::set
set(bits, flag, value) == IF value THEN insert(bits, flag) ELSE remove(bits, flag)

\* CpuFlags::from_bits_truncate
from_bits_truncate(bits) == BitAnd(bits, CpuFlags_all)

----------------------------------------------------------------------------
(* cpu/opcode_array.rs *)

INSTRUCTION_ARRAY ==
<<
    [code |-> 105, mnemonic |-> "Adc", len |-> 2, cycles |-> 2, mode |-> "Immediate"],
    [code |-> 101, mnemonic |-> "Adc", len |-> 2, cycles |-> 3, mode |-> "ZeroPage"],
    [code |-> 117, mnemonic |-> "Adc", len |-> 2, cycles |-> 4, mode |-> "ZeroPage_X"],
    [code |-> 109, mnemonic |-> "Adc", len |-> 3, cycles |-> 4, mode |-> "Absolute"],
    [code |-> 125, mnemonic |-> "Adc", len |-> 3, cycles |-> 4, mode |-> "Absolute_X"],
    [code |-> 121, mnemonic |-> "Adc", len |-> 3, cycles |-> 4, mode |-> "Absolute_Y"],
    [code |-> 97, mnemonic |-> "Adc", len |-> 2, cycles |-> 6, mode |-> "Indirect_X"],
    [code |-> 113, mnemonic |-> "Adc", len |-> 2, cycles |-> 5, mode |-> "Indirect_Y"],
    [code |-> 41, mnemonic |-> "And", len |-> 2, cycles |-> 2, mode |-> "Immediate"],
    [code |-> 37, mnemonic |-> "And", len |-> 2, cycles |-> 3, mode |-> "ZeroPage"],
    [code |-> 53, mnemonic |-> "And", len |-> 2, cycles |-> 4, mode |-> "ZeroPage_X"],
    [code |-> 45, mnemonic |-> "And", len |-> 3, cycles |-> 4, mode |-> "Absolute"],
    [code |-> 61, mnemonic |-> "And", len |-> 3, cycles |-> 4, mode |-> "Absolute_X"],
    [code |-> 57, mnemonic |-> "And", len |-> 3, cycles |-> 4, mode |-> "Absolute_Y"],
    [code |-> 33, mnemonic |-> "And", len |-> 2, cycles |-> 6, mode |-> "Indirect_X"],
    [code |-> 49, mnemonic |-> "And", len |-> 2, cycles |-> 5, mode |-> "Indirect_Y"],
    [code |-> 10, mnemonic |-> "Asl", len |-> 1, cycles |-> 2, mode |-> "Implicit"],
    [code |-> 6, mnemonic |-> "Asl", len |-> 2, cycles |-> 5, mode |-> "ZeroPage"],
    [code |-> 22, mnemonic |-> "Asl", len |-> 2, cycles |-> 6, mode |-> "ZeroPage_X"],
    [code |-> 14, mnemonic |-> "Asl", len |-> 3, cycles |-> 6, mode |-> "Absolute"],
    [code |-> 30, mnemonic |-> "Asl", len |-> 3, cycles |-> 7, mode |-> "Absolute_X"],
    [code |-> 144, mnemonic |-> "Bcc", len |-> 2, cycles |-> 2, mode |-> "Relative"],
    [code |-> 176, mnemonic |-> "Bcs", len |-> 2, cycles |-> 2, mode |-> "Relative"],
    [code |-> 240, mnemonic |-> "Beq", len |-> 2, cycles |-> 2, mode |-> "Relative"],
    [code |-> 36, mnemonic |-> "Bit", len |-> 2, cycles |-> 3, mode |-> "ZeroPage"],
    [code |-> 44, mnemonic |-> "Bit", len |-> 3, cycles |-> 4, mode |-> "Absolute"],
    [code |-> 48, mnemonic |-> "Bmi", len |-> 2, cycles |-> 2, mode |-> "Relative"],
    [code |-> 208, mnemonic |-> "Bne", len |-> 2, cycles |-> 2, mode |-> "Relative"],
    [code |-> 16, mnemonic |-> "Bpl", len |-> 2, cycles |-> 2, mode |-> "Relative"],
    [code |-> 0, mnemonic |-> "Brk", len |-> 1, cycles |-> 7, mode |-> "Implicit"],
    [code |-> 80, mnemonic |-> "Bvc", len |-> 2, cycles |-> 2, mode |-> "Relative"],
    [code |-> 112, mnemonic |-> "Bvs", len |-> 2, cycles |-> 2, mode |-> "Relative"],
    [code |-> 24, mnemonic |-> "Clc", len |-> 1, cycles |-> 2, mode |-> "Implicit"],
    [code |-> 216, mnemonic |-> "Clc", len |-> 1, cycles |-> 2, mode |-> "Implicit"],
    [code |-> 88, mnemonic |-> "Clc", len |-> 1, cycles |-> 2, mode |-> "Implicit"],
    [code |-> 184, mnemonic |-> "Clc", len |-> 1, cycles |-> 2, mode |-> "Implicit"],
    [code |-> 201, mnemonic |-> "Cmp", len |-> 2, cycles |-> 2, mode |-> "Immediate"],
    [code |-> 197, mnemonic |-> "Cmp", len |-> 2, cycles |-> 3, mode |-> "ZeroPage"],
    [code |-> 213, mnemonic |-> "Cmp", len |-> 2, cycles |-> 4, mode |-> "ZeroPage_X"],
    [code |-> 205, mnemonic |-> "Cmp", len |-> 3, cycles |-> 4, mode |-> "Absolute"],
    [code |-> 221, mnemonic |-> "Cmp", len |-> 3, cycles |-> 4, mode |-> "Absolute_X"],
    [code |-> 217, mnemonic |-> "Cmp", len |-> 3, cycles |-> 4, mode |-> "Absolute_Y"],
    [code |-> 193, mnemonic |-> "Cmp", len |-> 2, cycles |-> 6, mode |-> "Indirect_X"],
    [code |-> 209, mnemonic |-> "Cmp", len |-> 2, cycles |-> 5, mode |-> "Indirect_Y"],
    [code |-> 224, mnemonic |-> "Cpx", len |-> 2, cycles |-> 2, mode |-> "Immediate"],
    [code |-> 228, mnemonic |-> "Cpx", len |-> 2, cycles |-> 3, mode |-> "ZeroPage"],
    [code |-> 236, mnemonic |-> "Cpx", len |-> 3, cycles |-> 4, mode |-> "Absolute"],
    [code |-> 192, mnemonic |-> "Cpy", len |-> 2, cycles |-> 2, mode |-> "Immediate"],
    [code |-> 196, mnemonic |-> "Cpy", len |-> 2, cycles |-> 3, mode |-> "ZeroPage"],
    [code |-> 204, mnemonic |-> "Cpy", len |-> 3, cycles |-> 4, mode |-> "Absolute"],
    [code |-> 198, mnemonic |-> "Dec", len |-> 2, cycles |-> 5, mode |-> "ZeroPage"],
    [code |-> 214, mnemonic |-> "Dec", len |-> 2, cycles |-> 6, mode |-> "ZeroPage_X"],
    [code |-> 206, mnemonic |-> "Dec", len |-> 3, cycles |-> 6, mode |-> "Absolute"],
    [code |-> 222, mnemonic |-> "Dec", len |-> 3, cycles |-> 7, mode |-> "Absolute_X"],
    [code |-> 202, mnemonic |-> "Dex", len |-> 1, cycles |-> 2, mode |-> "Implicit"],
    [code |-> 136, mnemonic |-> "Dey", len |-> 1, cycles |-> 2, mode |-> "Implicit"],
    [code |-> 73, mnemonic |-> "Eor", len |-> 2, cycles |-> 2, mode |-> "Immediate"],
    [code |-> 69, mnemonic |-> "Eor", len |-> 2, cycles |-> 3, mode |-> "ZeroPage"],
    [code |-> 85, mnemonic |-> "Eor", len |-> 2, cycles |-> 4, mode |-> "ZeroPage_X"],
    [code |-> 77, mnemonic |-> "Eor", len |-> 3, cycles |-> 4, mode |-> "Absolute"],
    [code |-> 93, mnemonic |-> "Eor", len |-> 3, cycles |-> 4, mode |-> "Absolute_X"],
    [code |-> 89, mnemonic |-> "Eor", len |-> 3, cycles |-> 4, mode |-> "Absolute_Y"],
    [code |-> 65, mnemonic |-> "Eor", len |-> 2, cycles |-> 6, mode |-> "Indirect_X"],
    [code |-> 81, mnemonic |-> "Eor", len |-> 2, cycles |-> 5, mode |-> "Indirect_Y"],
    [code |-> 238, mnemonic |-> "Inc", len |-> 2, cycles |-> 5, mode |-> "ZeroPage"],
    [code |-> 246, mnemonic |-> "Inc", len |-> 2, cycles |-> 6, mode |-> "ZeroPage_X"],
    [code |-> 238, mnemonic |-> "Inc", len |-> 3, cycles |-> 6, mode |-> "Absolute"],
    [code |-> 254, mnemonic |-> "Inc", len |-> 3, cycles |-> 7, mode |-> "Absolute_X"],
    [code |-> 232, mnemonic |-> "Inx", len |-> 1, cycles |-> 2, mode |-> "Implicit"],
    [code |-> 200, mnemonic |-> "Iny", len |-> 1, cycles |-> 2, mode |-> "Implicit"],
    [code |-> 76, mnemonic |-> "Jmp", len |-> 3, cycles |-> 3, mode |-> "Absolute"],
    [code |-> 108, mnemonic |-> "Jmp", len |-> 3, cycles |-> 5, mode |-> "Indirect"],
    [code |-> 32, mnemonic |-> "Jsr", len |-> 3, cycles |-> 6, mode |-> "Absolute"],
    [code |-> 169, mnemonic |-> "Lda", len |-> 2, cycles |-> 2, mode |-> "Immediate"],
    [code |-> 165, mnemonic |-> "Lda", len |-> 2, cycles |-> 3, mode |-> "ZeroPage"],
    [code |-> 181, mnemonic |-> "Lda", len |-> 2, cycles |-> 4, mode |-> "ZeroPage_X"],
    [code |-> 173, mnemonic |-> "Lda", len |-> 3, cycles |-> 4, mode |-> "Absolute"],
    [code |-> 189, mnemonic |-> "Lda", len |-> 3, cycles |-> 4, mode |-> "Absolute_X"],
    [code |-> 185, mnemonic |-> "Lda", len |-> 3, cycles |-> 4, mode |-> "Absolute_Y"],
    [code |-> 161, mnemonic |-> "Lda", len |-> 2, cycles |-> 6, mode |-> "Indirect_X"],
    [code |-> 177, mnemonic |-> "Lda", len |-> 2, cycles |-> 5, mode |-> "Indirect_Y"],
    [code |-> 162, mnemonic |-> "Ldx", len |-> 2, cycles |-> 2, mode |-> "Immediate"],
    [code |-> 166, mnemonic |-> "Ldx", len |-> 2, cycles |-> 3, mode |-> "ZeroPage"],
    [code |-> 182, mnemonic |-> "Ldx", len |-> 2, cycles |-> 4, mode |-> "ZeroPage_Y"],
    [code |-> 174, mnemonic |-> "Ldx", len |-> 3, cycles |-> 4, mode |-> "Absolute"],
    [code |-> 190, mnemonic |-> "Ldx", len |-> 3, cycles |-> 4, mode |-> "Absolute_Y"],
    [code |-> 160, mnemonic |-> "Ldy", len |-> 2, cycles |-> 2, mode |-> "Immediate"],
    [code |-> 164, mnemonic |-> "Ldy", len |-> 2, cycles |-> 3, mode |-> "ZeroPage"],
    [code |-> 180, mnemonic |-> "Ldy", len |-> 2, cycles |-> 4, mode |-> "ZeroPage_X"],
    [code |-> 172, mnemonic |-> "Ldy", len |-> 3, cycles |-> 4, mode |-> "Absolute"],
    [code |-> 188, mnemonic |-> "Ldy", len |-> 3, cycles |-> 4, mode |-> "Absolute_X"],
    [code |-> 74, mnemonic |-> "Lsr", len |-> 1, cycles |-> 2, mode |-> "Accumulator"],
    [code |-> 70, mnemonic |-> "Lsr", len |-> 2, cycles |-> 5, mode |-> "ZeroPage"],
    [code |-> 86, mnemonic |-> "Lsr", len |-> 2, cycles |-> 6, mode |-> "ZeroPage_X"],
    [code |-> 78, mnemonic |-> "Lsr", len |-> 3, cycles |-> 6, mode |-> "Absolute"],
    [code |-> 94, mnemonic |-> "Lsr", len |-> 3, cycles |-> 7, mode |-> "Absolute_X"],
    [code |-> 234, mnemonic |-> "Nop", len |-> 1, cycles |-> 2, mode |-> "Implicit"],
    [code |-> 9, mnemonic |-> "Ora", len |-> 2, cycles |-> 2, mode |-> "Immediate"],
    [code |-> 5, mnemonic |-> "Ora", len |-> 2, cycles |-> 3, mode |-> "ZeroPage"],
    [code |-> 21, mnemonic |-> "Ora", len |-> 2, cycles |-> 4, mode |-> "ZeroPage_X"],
    [code |-> 13, mnemonic |-> "Ora", len |-> 3, cycles |-> 4, mode |-> "Absolute"],
    [code |-> 29, mnemonic |-> "Ora", len |-> 3, cycles |-> 4, mode |-> "Absolute_X"],
    [code |-> 25, mnemonic |-> "Ora", len |-> 3, cycles |-> 4, mode |-> "Absolute_Y"],
    [code |-> 1, mnemonic |-> "Ora", len |-> 2, cycles |-> 6, mode |-> "Indirect_X"],
    [code |-> 17, mnemonic |-> "Ora", len |-> 2, cycles |-> 5, mode |-> "Indirect_Y"],
    [code |-> 72, mnemonic |-> "Pha", len |-> 1, cycles |-> 3, mode |-> "Implicit"],
    [code |-> 8, mnemonic |-> "Php", len |-> 1, cycles |-> 3, mode |-> "Implicit"],
    [code |-> 104, mnemonic |-> "Pla", len |-> 1, cycles |-> 4, mode |-> "Implicit"],
    [code |-> 40, mnemonic |-> "Plp", len |-> 1, cycles |-> 4, mode |-> "Implicit"],
    [code |-> 42, mnemonic |-> "Rol", len |-> 1, cycles |-> 2, mode |-> "Accumulator"],
    [code |-> 38, mnemonic |-> "Rol", len |-> 2, cycles |-> 5, mode |-> "ZeroPage"],
    [code |-> 54, mnemonic |-> "Rol", len |-> 2, cycles |-> 6, mode |-> "ZeroPage_X"],
    [code |-> 46, mnemonic |-> "Rol", len |-> 3, cycles |-> 6, mode |-> "Absolute"],
    [code |-> 62, mnemonic |-> "Rol", len |-> 3, cycles |-> 7, mode |-> "Absolute_X"],
    [code |-> 106, mnemonic |-> "Ror", len |-> 1, cycles |-> 2, mode |-> "Accumulator"],
    [code |-> 102, mnemonic |-> "Ror", len |-> 2, cycles |-> 5, mode |-> "ZeroPage"],
    [code |-> 118, mnemonic |-> "Ror", len |-> 2, cycles |-> 6, mode |-> "ZeroPage_X"],
    [code |-> 110, mnemonic |-> "Ror", len |-> 3, cycles |-> 6, mode |-> "Absolute"],
    [code |-> 126, mnemonic |-> "Ror", len |-> 3, cycles |-> 7, mode |-> "Absolute_X"],
    [code |-> 64, mnemonic |-> "Rti", len |-> 1, cycles |-> 6, mode |-> "Implicit"],
    [code |-> 96, mnemonic |-> "Rts", len |-> 1, cycles |-> 6, mode |-> "Implicit"],
    [code |-> 233, mnemonic |-> "Sbc", len |-> 2, cycles |-> 2, mode |-> "Immediate"],
    [code |-> 229, mnemonic |-> "Sbc", len |-> 2, cycles |-> 3, mode |-> "ZeroPage"],
    [code |-> 245, mnemonic |-> "Sbc", len |-> 2, cycles |-> 4, mode |-> "ZeroPage_X"],
    [code |-> 237, mnemonic |-> "Sbc", len |-> 3, cycles |-> 4, mode |-> "Absolute"],
    [code |-> 253, mnemonic |-> "Sbc", len |-> 3, cycles |-> 4, mode |-> "Absolute_X"],
    [code |-> 249, mnemonic |-> "Sbc", len |-> 3, cycles |-> 4, mode |-> "Absolute_Y"],
    [code |-> 225, mnemonic |-> "Sbc", len |-> 2, cycles |-> 6, mode |-> "Indirect_X"],
    [code |-> 241, mnemonic |-> "Sbc", len |-> 2, cycles |-> 5, mode |-> "Indirect_Y"],
    [code |-> 56, mnemonic |-> "Sec", len |-> 1, cycles |-> 2, mode |-> "Implicit"],
    [code |-> 248, mnemonic |-> "Sed", len |-> 1, cycles |-> 2, mode |-> "Implicit"],
    [code |-> 120, mnemonic |-> "Sei", len |-> 1, cycles |-> 2, mode |-> "Implicit"],
    [code |-> 133, mnemonic |-> "Sta", len |-> 2, cycles |-> 3, mode |-> "ZeroPage"],
    [code |-> 149, mnemonic |-> "Sta", len |-> 2, cycles |-> 4, mode |-> "ZeroPage_X"],
    [code |-> 141, mnemonic |-> "Sta", len |-> 3, cycles |-> 4, mode |-> "Absolute"],
    [code |-> 157, mnemonic |-> "Sta", len |-> 3, cycles |-> 5, mode |-> "Absolute_X"],
    [code |-> 153, mnemonic |-> "Sta", len |-> 3, cycles |-> 5, mode |-> "Absolute_Y"],
    [code |-> 129, mnemonic |-> "Sta", len |-> 2, cycles |-> 6, mode |-> "Indirect_X"],
    [code |-> 145, mnemonic |-> "Sta", len |-> 2, cycles |-> 6, mode |-> "Indirect_Y"],
    [code |-> 134, mnemonic |-> "Stx", len |-> 2, cycles |-> 3, mode |-> "ZeroPage"],
    [code |-> 150, mnemonic |-> "Stx", len |-> 2, cycles |-> 4, mode |-> "ZeroPage_Y"],
    [code |-> 142, mnemonic |-> "Stx", len |-> 3, cycles |-> 4, mode |-> "Absolute"],
    [code |-> 132, mnemonic |-> "Sty", len |-> 2, cycles |-> 3, mode |-> "ZeroPage"],
    [code |-> 148, mnemonic |-> "Sty", len |-> 2, cycles |-> 4, mode |-> "ZeroPage_Y"],
    [code |-> 140, mnemonic |-> "Sty", len |-> 3, cycles |-> 4, mode |-> "Absolute"],
    [code |-> 170, mnemonic |-> "Tax", len |-> 1, cycles |-> 2, mode |-> "Implicit"],
    [code |-> 168, mnemonic |-> "Tay", len |-> 1, cycles |-> 2, mode |-> "Implicit"],
    [code |-> 186, mnemonic |-> "Tsx", len |-> 1, cycles |-> 2, mode |-> "Implicit"],
    [code |-> 138, mnemonic |-> "Txa", len |-> 1, cycles |-> 2, mode |-> "Implicit"],
    [code |-> 154, mnemonic |-> "Txs", len |-> 1, cycles |-> 2, mode |-> "Implicit"],
    [code |-> 152, mnemonic |-> "Tya", len |-> 1, cycles |-> 2, mode |-> "Implicit"]
>>

\* const LEN: usize = 0xFF
LEN == 255

\* Option::None of the table
NoOpcode == [code |-> -1, mnemonic |-> "None", len |-> 0, cycles |-> 0, mode |-> "None"]

\* padded_array(): entry k is written to slot INSTRUCTION_ARRAY[k].code, a later
\* entry overwriting an earlier one
padded_array ==
    [slot \in 0 .. LEN - 1 |->
        LET written == {k \in 1 .. Len(INSTRUCTION_ARRAY) : INSTRUCTION_ARRAY[k].code = slot}
        IN  IF written = {} THEN NoOpcode
            ELSE INSTRUCTION_ARRAY[CHOOSE k \in written : \A j \in written : j <= k]]

INSTRUCTIONS == padded_array

\* INSTRUCTIONS[usize::from(raw)] with raw past the end of the array
OutOfBounds ==
    [code |-> -2, mnemonic |-> "OutOfBounds", len |-> 0, cycles |-> 0, mode |-> "None"]

\* decode(raw): OutOfBounds stands for the panic of the index (raw = 0xFF), NoOpcode for
\* the panic of unwrap_or_else on an empty slot
decode(raw) ==
    IF raw >= LEN THEN OutOfBounds ELSE INSTRUCTIONS[raw]

\* decode(raw) returned an OpCode
Decoded(opcode) == opcode # NoOpcode /\ opcode # OutOfBounds

----------------------------------------------------------------------------
(* cpu.rs: the struct and its memory *)

\* const STACK_RESET: u8 = 0xFD
STACK_RESET == 253
\* const STACK_START: u16 = 0x0100
STACK_START == 256
\* const STACK_MEMORY_END: u16 = 0x01FF
STACK_MEMORY_END == 511
\* const PRG_ROM_START_ADDR: u16 = 0x0600
PRG_ROM_START_ADDR == 1536
\* const PRG_ROM_EXEC_ADDR: u16 = 0xFFFC
PRG_ROM_EXEC_ADDR == 65532
\* memory: [u8; 0xFFFF]: the length of the array
MEM_LEN == 65535

\* the CPU the variables hold
Self ==
    [register_a |-> register_a, register_x |-> register_x, register_y |-> register_y,
     status |-> status, program_counter |-> program_counter, stack_ptr |-> stack_ptr,
     memory |-> memory, halt |-> halt, failure |-> failure,
     observer_calls |-> observer_calls, stop_signal |-> stop_signal,
     stack_log |-> stack_log]

\* impl Default for CPU
CPU_default ==
    [register_a |-> 0, register_x |-> 0, register_y |-> 0,
     status |-> CpuFlags_default, program_counter |-> 0, stack_ptr |-> STACK_RESET,
     memory |-> << >>, halt |-> "none", failure |-> "none",
     observer_calls |-> 0, stop_signal |-> FALSE, stack_log |-> << >>]

\* a panic unwinds: the CPU stays as the panicking call found it
Panic(c) == [c EXCEPT !.halt = "panic", !.failure = "panic"]

\* a panic that reports `what`
PanicWith(c, what) == [c EXCEPT !.halt = "panic", !.failure = what]

\* the array with index addr set to data
array_set(m, addr, data) ==
    IF data = 0
    THEN [a \in DOMAIN m \ {addr} |-> m[a]]
    ELSE [a \in DOMAIN m \cup {addr} |-> IF a = addr THEN data ELSE m[a]]

\* the array's element at addr, addr < MEM_LEN
array_get(m, addr) == IF addr \in DOMAIN m THEN m[addr] ELSE 0

\* Memory::mem_read for CPU: self.memory[addr as usize], PANIC when addr is out of bounds
mem_read(c, addr) ==
    IF addr >= MEM_LEN THEN PANIC ELSE array_get(c.memory, addr)

\* Memory::mem_write for CPU: self.memory[addr as usize] = data
mem_write(c, addr, data) ==
    IF addr >= MEM_LEN THEN Panic(c)
    ELSE [c EXCEPT !.memory = array_set(c.memory, addr, data)]

\* Memory::mem_read_u16: read(pos) | read(pos + 1) << 8
mem_read_u16(c, pos) ==
    LET lo == mem_read(c, pos)
        hi == IF lo = PANIC THEN PANIC ELSE mem_read(c, pos + 1)
    IN  IF hi = PANIC THEN PANIC ELSE from_le_bytes(lo, hi)

\* Memory::mem_write_u16: write(pos, low); write(pos + 1, high)
mem_write_u16(c, pos, data) ==
    LET c1 == mem_write(c, pos, to_le_bytes(data).low)
    IN  IF c1.halt = "panic" THEN c1 ELSE mem_write(c1, pos + 1, to_le_bytes(data).high)

----------------------------------------------------------------------------
(* cpu.rs: the stack *)

\* stack_pop with a plain `+ 1` on a wider pointer: no wrap from 0xFF to 0x00
stack_pop_no_wrap(c) ==
    LET sp   == c.stack_ptr + 1
        addr == STACK_START + sp
        data == mem_read(c, addr)
    IN  [cpu  |-> [c EXCEPT !.stack_ptr = sp,
                            !.stack_log = Append(@, [op |-> "pop", addr |-> addr, data |-> data])],
         data |-> data]

\* stack_pop: the CPU it leaves and the byte it returns
stack_pop(c) ==
    LET sp   == u8_wrapping_add(c.stack_ptr, 1)
        addr == STACK_START + sp
        data == mem_read(c, addr)
    IN  [cpu  |-> [c EXCEPT !.stack_ptr = sp,
                            !.stack_log = Append(@, [op |-> "pop", addr |-> addr, data |-> data])],
         data |-> data]

\* stack_push that decrements the pointer before it writes
stack_push_decrement_first(c, data) ==
    LET sp   == u8_wrapping_sub(c.stack_ptr, 1)
        addr == STACK_START + sp
        c1   == mem_write(c, addr, data)
    IN  [c1 EXCEPT !.stack_ptr = sp,
                   !.stack_log = Append(@, [op |-> "push", addr |-> addr, data |-> data])]

\* stack_push with saturating_sub in place of wrapping_sub
stack_push_saturating(c, data) ==
    LET addr == STACK_START + c.stack_ptr
        c1   == mem_write(c, addr, data)
    IN  [c1 EXCEPT !.stack_ptr = IF c.stack_ptr = 0 THEN 0 ELSE c.stack_ptr - 1,
                   !.stack_log = Append(@, [op |-> "push", addr |-> addr, data |-> data])]

\* stack_push
stack_push(c, data) ==
    LET addr == STACK_START + c.stack_ptr
        c1   == mem_write(c, addr, data)
    IN  [c1 EXCEPT !.stack_ptr = u8_wrapping_sub(c.stack_ptr, 1),
                   !.stack_log = Append(@, [op |-> "push", addr |-> addr, data |-> data])]

\* stack_pop_u16
stack_pop_u16(c) ==
    LET low  == stack_pop(c)
        high == stack_pop(low.cpu)
    IN  [cpu |-> high.cpu, data |-> from_le_bytes(low.data, high.data)]

\* stack_push_u16 that pushes the low byte first
stack_push_u16_low_first(c, data) ==
    stack_push(stack_push(c, to_le_bytes(data).low), to_le_bytes(data).high)

\* stack_push_u16
stack_push_u16(c, data) ==
    stack_push(stack_push(c, to_le_bytes(data).high), to_le_bytes(data).low)

----------------------------------------------------------------------------
(* cpu.rs: operands and flags *)

\* a zero-page index that carries into the high byte
zero_page_indexed_carrying(pos, index) == IF pos = PANIC THEN PANIC ELSE pos + index

\* pos.wrapping_add(self.register_x).into(), and the same with register_y
zero_page_indexed(pos, index) == IF pos = PANIC THEN PANIC ELSE u8_wrapping_add(pos, index)

\* get_operand_address: the address, or PANIC
get_operand_address(c, mode) ==
    LET pc == c.program_counter IN
    CASE mode = "Immediate" -> pc
      [] mode = "ZeroPage" -> mem_read(c, pc)
      [] mode = "Absolute" -> mem_read_u16(c, pc)
      [] mode = "ZeroPage_X" -> zero_page_indexed(mem_read(c, pc), c.register_x)
      [] mode = "ZeroPage_Y" -> zero_page_indexed(mem_read(c, pc), c.register_y)
      [] mode = "Absolute_X" ->
            LET base == mem_read_u16(c, pc)
            IN  IF base = PANIC THEN PANIC ELSE u16_wrapping_add(base, c.register_x)
      [] mode = "Absolute_Y" ->
            LET base == mem_read_u16(c, pc)
            IN  IF base = PANIC THEN PANIC ELSE u16_wrapping_add(base, c.register_y)
      [] mode = "Indirect_X" ->
            LET base == mem_read(c, pc) IN
            IF base = PANIC THEN PANIC
            ELSE LET ptr == u8_wrapping_add(base, c.register_x)
                     lo  == mem_read(c, ptr)
                     hi  == mem_read(c, u8_wrapping_add(ptr, 1))
                 IN  from_le_bytes(lo, hi)
      [] mode = "Indirect_Y" ->
            LET base == mem_read(c, pc) IN
            IF base = PANIC THEN PANIC
            ELSE LET lo == mem_read(c, base)
                     hi == mem_read(c, u8_wrapping_add(base, 1))
                     deref_base == from_le_bytes(lo, hi)
                 IN  u16_wrapping_add(deref_base, c.register_y)
      [] OTHER -> PANIC

\* (addr, value) of get_memory, ok = FALSE for a panic
Operand(addr, value) == [ok |-> value # PANIC, addr |-> addr, data |-> value]

\* let value = self.mem_read(addr)
read_operand(c, addr) == Operand(addr, IF addr = PANIC THEN PANIC ELSE mem_read(c, addr))

\* get_memory: the address and the byte there
get_memory(c, mode) == read_operand(c, get_operand_address(c, mode))

\* update_zero_flag
update_zero_flag(c, result) ==
    [c EXCEPT !.status = set(@, ZERO, result = 0)]

\* update_negative_flag testing bit 6 (0b0100_0000) in place of bit 7
update_negative_flag_bit6(c, result) ==
    [c EXCEPT !.status = set(@, NEGATIV, BitAnd(result, 64) # 0)]

\* update_negative_flag
update_negative_flag(c, result) ==
    [c EXCEPT !.status = set(@, NEGATIV, result \div 128 = 1)]

\* update_zero_and_negative_flags
update_zero_and_negative_flags(c, result) ==
    update_negative_flag(update_zero_flag(c, result), result)

\* set_accumulator
set_accumulator(c, data) ==
    update_zero_and_negative_flags([c EXCEPT !.register_a = data], data)

\* set_memory
set_memory(c, addr, data) ==
    LET c1 == mem_write(c, addr, data)
    IN  IF c1.halt = "panic" THEN c1 ELSE update_zero_and_negative_flags(c1, data)

\* msb_to_carry_flag
msb_to_carry_flag(c, value) ==
    [c EXCEPT !.status = set(@, CARRY, value \div 128 = 1)]

\* lsb_to_carry_flag
lsb_to_carry_flag(c, value) ==
    [c EXCEPT !.status = set(@, CARRY, BitAnd(value, 1) = 1)]

\* branch
branch(c, condition) ==
    IF condition
    THEN LET data == mem_read(c, c.program_counter) IN
         IF data = PANIC THEN Panic(c)
         ELSE [c EXCEPT !.program_counter =
                    u16_wrapping_add_signed(u16_wrapping_add(@, 1), i8_from_le_bytes(data))]
    ELSE c

\* a handler whose first statement is get_memory: it goes on with Then(cpu, operand)
\* unless that read panics
OnOperand(c, m, Then(_, _)) == IF ~m.ok THEN Panic(c) ELSE Then(c, m)
WithMemory(c, mode, Then(_, _)) == OnOperand(c, get_memory(c, mode), Then)

\* compare that sets the carry only when the register is greater than the operand
compare_strict(c, mode, with) ==
    WithMemory(c, mode, LAMBDA k, m :
        update_zero_and_negative_flags(
            [k EXCEPT !.status = set(@, CARRY, with > m.data)],
            u8_wrapping_sub(with, m.data)))

\* compare
compare(c, mode, with) ==
    WithMemory(c, mode, LAMBDA k, m :
        update_zero_and_negative_flags(
            [k EXCEPT !.status = set(@, CARRY, with >= m.data)],
            u8_wrapping_sub(with, m.data)))

\* add_to_accumulator, from the sum on
add_sum(c, data, sum, result) ==
    set_accumulator(
        [c EXCEPT !.status =
            set(set(@, CARRY, sum > 255), OVERFLOW,
                BitAnd(BitAnd(BitXor(result, data), BitXor(result, c.register_a)), 128) # 0)],
        result)

\* let [result, _] = sum.to_le_bytes()
add_truncate(c, data, sum) == add_sum(c, data, sum, to_le_bytes(sum).low)

\* add_to_accumulator that leaves the carry out of the sum
add_to_accumulator_no_carry(c, data) == add_truncate(c, data, c.register_a + data)

\* add_to_accumulator
add_to_accumulator(c, data) ==
    add_truncate(c, data, c.register_a + data + (IF contains(c.status, CARRY) THEN 1 ELSE 0))

----------------------------------------------------------------------------
(* cpu/instructions.rs *)

adc(c, mode) == WithMemory(c, mode, LAMBDA k, m : add_to_accumulator(k, m.data))

and(c, mode) ==
    WithMemory(c, mode, LAMBDA k, m : set_accumulator(k, BitAnd(k.register_a, m.data)))

asl_accumulator(c) ==
    set_accumulator(msb_to_carry_flag(c, c.register_a), (c.register_a * 2) % U8)

asl_addr(c, mode) ==
    WithMemory(c, mode,
        LAMBDA k, m : set_memory(msb_to_carry_flag(k, m.data), m.addr, (m.data * 2) % U8))

asl(c, mode) == IF mode = "Accumulator" THEN asl_accumulator(c) ELSE asl_addr(c, mode)

bcc(c) == branch(c, ~contains(c.status, CARRY))
bcs(c) == branch(c, contains(c.status, CARRY))
beq(c) == branch(c, contains(c.status, ZERO))

bit(c, mode) ==
    WithMemory(c, mode, LAMBDA k, m :
        LET k1 == update_zero_flag(k, BitAnd(k.register_a, m.data))
            k2 == [k1 EXCEPT !.status = set(@, OVERFLOW, BitAnd(m.data, OVERFLOW) > 0)]
        IN  [k2 EXCEPT !.status = set(@, NEGATIV, BitAnd(m.data, NEGATIV) > 0)])

bmi(c) == branch(c, contains(c.status, NEGATIV))
bne(c) == branch(c, ~contains(c.status, ZERO))
bpl(c) == branch(c, ~contains(c.status, NEGATIV))
bvc(c) == branch(c, ~contains(c.status, OVERFLOW))
bvs(c) == branch(c, contains(c.status, OVERFLOW))

clc(c) == [c EXCEPT !.status = remove(@, CARRY)]
cld(c) == [c EXCEPT !.status = remove(@, DECIMAL_MODE)]
cli(c) == [c EXCEPT !.status = remove(@, INTERUPT_DISABLE)]
clv(c) == [c EXCEPT !.status = remove(@, OVERFLOW)]

dec(c, mode) ==
    WithMemory(c, mode, LAMBDA k, m : set_memory(k, m.addr, u8_wrapping_sub(m.data, 1)))

dex(c, mode) ==
    LET c1 == [c EXCEPT !.register_x = u8_wrapping_sub(@, 1)]
    IN  update_zero_and_negative_flags(c1, c1.register_x)

dey(c, mode) ==
    LET c1 == [c EXCEPT !.register_y = u8_wrapping_sub(@, 1)]
    IN  update_zero_and_negative_flags(c1, c1.register_y)

eor(c, mode) ==
    WithMemory(c, mode, LAMBDA k, m : set_accumulator(k, BitXor(k.register_a, m.data)))

inc(c, mode) ==
    WithMemory(c, mode, LAMBDA k, m : set_memory(k, m.addr, u8_wrapping_add(m.data, 1)))

\* inx with saturating_add in place of wrapping_add
inx_saturating(c) ==
    LET c1 == [c EXCEPT !.register_x = IF @ = 255 THEN 255 ELSE @ + 1]
    IN  update_zero_and_negative_flags(c1, c1.register_x)

inx(c) ==
    LET c1 == [c EXCEPT !.register_x = u8_wrapping_add(@, 1)]
    IN  update_zero_and_negative_flags(c1, c1.register_x)

iny(c) ==
    LET c1 == [c EXCEPT !.register_y = u8_wrapping_add(@, 1)]
    IN  update_zero_and_negative_flags(c1, c1.register_y)

\* jmp: the two ifs in turn; the second reads the program counter the first may have set
\* self.program_counter = target
set_program_counter(c, target) ==
    IF target = PANIC THEN Panic(c) ELSE [c EXCEPT !.program_counter = target]

jmp_absolute(c, mode) ==
    IF mode = "Absolute"
    THEN set_program_counter(c, mem_read_u16(c, c.program_counter))
    ELSE c

\* u16::from_le_bytes([low, high]) of the page-boundary case
jmp_same_page(low, high) ==
    IF low = PANIC \/ high = PANIC THEN PANIC ELSE from_le_bytes(low, high)

\* indirect_addr
jmp_indirect_addr(c, addr) ==
    IF addr = PANIC THEN PANIC
    ELSE IF addr % 256 = 255
         THEN jmp_same_page(mem_read(c, addr), mem_read(c, addr - (addr % 256)))
         ELSE mem_read_u16(c, addr)

jmp_indirect(c, mode) ==
    IF mode = "Indirect"
    THEN set_program_counter(c, jmp_indirect_addr(c, mem_read_u16(c, c.program_counter)))
    ELSE c

\* jmp: the two ifs in turn
jmp_second(c1, mode) == IF c1.halt = "panic" THEN c1 ELSE jmp_indirect(c1, mode)
jmp(c, mode) == jmp_second(jmp_absolute(c, mode), mode)

\* self.program_counter = target_addr
jump_to(c, target_addr) ==
    IF target_addr = PANIC THEN Panic(c) ELSE [c EXCEPT !.program_counter = target_addr]

\* let target_addr = self.mem_read_u16(self.program_counter)
jsr_target(c) == jump_to(c, mem_read_u16(c, c.program_counter))

\* self.stack_push_u16(...)
jsr_push(c, ret) == IF ret = PANIC THEN Panic(c) ELSE jsr_target(stack_push_u16(c, ret))

\* self.program_counter + 2 - 1
jsr_return_addr(plus2) == IF plus2 = PANIC THEN PANIC ELSE u16_sub(overflow_checks, plus2, 1)

jsr(c) == jsr_push(c, jsr_return_addr(u16_add(overflow_checks, c.program_counter, 2)))

\* lda that leaves the flags alone
lda_keeps_flags(c, mode) ==
    WithMemory(c, mode, LAMBDA k, m : [k EXCEPT !.register_a = m.data])

lda(c, mode) == WithMemory(c, mode, LAMBDA k, m : set_accumulator(k, m.data))

ldx(c, mode) ==
    WithMemory(c, mode, LAMBDA k, m :
        update_zero_and_negative_flags([k EXCEPT !.register_x = m.data], m.data))

ldy(c, mode) ==
    WithMemory(c, mode, LAMBDA k, m :
        update_zero_and_negative_flags([k EXCEPT !.register_y = m.data], m.data))

lsr_accumulator(c) ==
    set_accumulator(lsb_to_carry_flag(c, c.register_a), c.register_a \div 2)

lsr_addr(c, mode) ==
    WithMemory(c, mode,
        LAMBDA k, m : set_memory(lsb_to_carry_flag(k, m.data), m.addr, m.data \div 2))

lsr(c, mode) == IF mode = "Accumulator" THEN lsr_accumulator(c) ELSE lsr_addr(c, mode)

nop(c) == c

ora(c, mode) ==
    WithMemory(c, mode, LAMBDA k, m : set_accumulator(k, BitOr(k.register_a, m.data)))

pha(c, mode) == stack_push(c, c.register_a)

php(c, mode) == stack_push(c, c.status)

\* self.register_a = popped; update_zero_and_negative_flags(self.register_a)
pla_popped(p) == update_zero_and_negative_flags([p.cpu EXCEPT !.register_a = p.data], p.data)
pla(c, mode) == pla_popped(stack_pop(c))

\* self.status = CpuFlags::from_bits_truncate(popped)
plp_popped(p) == [p.cpu EXCEPT !.status = from_bits_truncate(p.data)]
plp(c, mode) == plp_popped(stack_pop(c))

\* data <<= 1; if carry { data |= 1 }
rol_value(data, carry) == BitOr((data * 2) % U8, IF carry THEN 1 ELSE 0)

rol_accumulator(c) ==
    set_accumulator(msb_to_carry_flag(c, c.register_a),
                    rol_value(c.register_a, contains(c.status, CARRY)))

rol_memory(c, mode) ==
    WithMemory(c, mode, LAMBDA k, m :
        set_memory(msb_to_carry_flag(k, m.data), m.addr,
                   rol_value(m.data, contains(k.status, CARRY))))

rol(c, mode) == IF mode = "Accumulator" THEN rol_accumulator(c) ELSE rol_memory(c, mode)

\* data >>= 1; if carry { data |= 1 << 7 }
ror_value(data, carry) == BitOr(data \div 2, IF carry THEN 128 ELSE 0)

ror_accumulator(c) ==
    set_accumulator(lsb_to_carry_flag(c, c.register_a),
                    ror_value(c.register_a, contains(c.status, CARRY)))

ror_memory(c, mode) ==
    WithMemory(c, mode, LAMBDA k, m :
        set_memory(lsb_to_carry_flag(k, m.data), m.addr,
                   ror_value(m.data, contains(k.status, CARRY))))

\* ror calls rol_accumulator and rol_memory
ror(c, mode) == IF mode = "Accumulator" THEN rol_accumulator(c) ELSE rol_memory(c, mode)

\* rti: the status from the popped byte, BREAK removed, BREAK2 inserted
rti_status(p) ==
    [p.cpu EXCEPT !.status = insert(remove(from_bits_truncate(p.data), BREAK), BREAK2)]

\* self.program_counter = self.stack_pop_u16()
rti_program_counter(w) == [w.cpu EXCEPT !.program_counter = w.data]

\* rti that adds 1 to the popped word, as rts does
rti_plus_one_popped(w) == [w.cpu EXCEPT !.program_counter = (w.data + 1) % U16]
rti_plus_one(c) == rti_plus_one_popped(stack_pop_u16(rti_status(stack_pop(c))))

rti(c) == rti_program_counter(stack_pop_u16(rti_status(stack_pop(c))))

\* self.program_counter = popped + 1
rts_popped(w) == set_program_counter(w.cpu, u16_add(overflow_checks, w.data, 1))
rts(c) == rts_popped(stack_pop_u16(c))

\* sbc adding the two's complement of the operand: the `- 1` is left out
sbc_twos_complement(c, mode) ==
    WithMemory(c, mode, LAMBDA k, m :
        add_to_accumulator(k, i8_to_le_bytes(i8_wrapping_neg(i8_from_le_bytes(m.data)))))

\* sbc that subtracts without a borrow, whatever the carry
sbc_ignores_carry(c, mode) ==
    WithMemory(c, mode, LAMBDA k, m :
        add_to_accumulator([k EXCEPT !.status = insert(@, CARRY)],
            i8_to_le_bytes(i8_wrapping_sub(i8_wrapping_neg(i8_from_le_bytes(m.data)), 1))))

sbc(c, mode) ==
    WithMemory(c, mode, LAMBDA k, m :
        add_to_accumulator(k,
            i8_to_le_bytes(i8_wrapping_sub(i8_wrapping_neg(i8_from_le_bytes(m.data)), 1))))

sec(c) == [c EXCEPT !.status = insert(@, CARRY)]
sed(c) == [c EXCEPT !.status = insert(@, DECIMAL_MODE)]
sei(c) == [c EXCEPT !.status = insert(@, INTERUPT_DISABLE)]

\* self.mem_write(addr, register)
store_at(c, addr, data) == IF addr = PANIC THEN Panic(c) ELSE mem_write(c, addr, data)

\* a store: the address, then the write
store(c, mode, data) == store_at(c, get_operand_address(c, mode), data)

sta(c, mode) == store(c, mode, c.register_a)
stx(c, mode) == store(c, mode, c.register_x)
sty(c, mode) == store(c, mode, c.register_y)

tax(c) == update_zero_and_negative_flags([c EXCEPT !.register_x = c.register_a], c.register_a)
tay(c) == update_zero_and_negative_flags([c EXCEPT !.register_y = c.register_a], c.register_a)
txa(c) == update_zero_and_negative_flags([c EXCEPT !.register_a = c.register_x], c.register_x)
tya(c) == update_zero_and_negative_flags([c EXCEPT !.register_a = c.register_y], c.register_y)

----------------------------------------------------------------------------
(* cpu.rs: the run loop *)

\* the match on opcode.mnemonic of run_with_callback (Brk returns before it is reached)
dispatch(c, opcode) ==
    LET mn == opcode.mnemonic  mode == opcode.mode IN
    CASE mn = "Adc" -> adc(c, mode)
      [] mn = "And" -> and(c, mode)
      [] mn = "Asl" -> asl(c, mode)
      [] mn = "Bcc" -> bcc(c)
      [] mn = "Bcs" -> bcs(c)
      [] mn = "Beq" -> beq(c)
      [] mn = "Bit" -> bit(c, mode)
      [] mn = "Bmi" -> bmi(c)
      [] mn = "Bne" -> bne(c)
      [] mn = "Bpl" -> bpl(c)
      [] mn = "Bvc" -> bvc(c)
      [] mn = "Bvs" -> bvs(c)
      [] mn = "Clc" -> clc(c)
      [] mn = "Cld" -> cld(c)
      [] mn = "Cli" -> cli(c)
      [] mn = "Clv" -> clv(c)
      [] mn = "Cmp" -> compare(c, mode, c.register_a)
      [] mn = "Cpx" -> compare(c, mode, c.register_x)
      [] mn = "Cpy" -> compare(c, mode, c.register_y)
      [] mn = "Dec" -> dec(c, mode)
      [] mn = "Dex" -> dex(c, mode)
      [] mn = "Dey" -> dey(c, mode)
      [] mn = "Eor" -> eor(c, mode)
      [] mn = "Inc" -> inc(c, mode)
      [] mn = "Inx" -> inx(c)
      [] mn = "Iny" -> iny(c)
      [] mn = "Jmp" -> jmp(c, mode)
      [] mn = "Jsr" -> jsr(c)
      [] mn = "Lda" -> lda(c, mode)
      [] mn = "Ldx" -> ldx(c, mode)
      [] mn = "Ldy" -> ldy(c, mode)
      [] mn = "Lsr" -> lsr(c, mode)
      [] mn = "Nop" -> nop(c)
      [] mn = "Ora" -> ora(c, mode)
      [] mn = "Pha" -> pha(c, mode)
      [] mn = "Php" -> php(c, mode)
      [] mn = "Pla" -> pla(c, mode)
      [] mn = "Plp" -> plp(c, mode)
      [] mn = "Rol" -> rol(c, mode)
      [] mn = "Ror" -> ror(c, mode)
      [] mn = "Rti" -> rti(c)
      [] mn = "Rts" -> rts(c)
      [] mn = "Sbc" -> sbc(c, mode)
      [] mn = "Sec" -> sec(c)
      [] mn = "Sed" -> sed(c)
      [] mn = "Sei" -> sei(c)
      [] mn = "Sta" -> sta(c, mode)
      [] mn = "Stx" -> stx(c, mode)
      [] mn = "Sty" -> sty(c, mode)
      [] mn = "Tax" -> tax(c)
      [] mn = "Tay" -> tay(c)
      [] mn = "Tsx" -> PanicWith(c, "not yet implemented")
      [] mn = "Txa" -> txa(c)
      [] mn = "Txs" -> PanicWith(c, "not yet implemented")
      [] mn = "Tya" -> tya(c)

\* the observer: a closure that leaves the CPU alone, counts its calls, and raises its
\* stop signal after the call the host's plan names; the closure of run(), |_| {}, never does
callback(c) ==
    [c EXCEPT !.observer_calls = @ + 1,
              !.stop_signal = @ \/ c.observer_calls + 1 = input.stop_after]

\* callback(self), reached unless the adjustment panicked
loop_callback(c) == IF c.halt = "panic" THEN c ELSE callback(c)

\* the adjustment adding the whole length of the instruction
post_adjust_whole_length(c, program_counter_state, opcode) ==
    IF program_counter_state = c.program_counter
    THEN set_program_counter(c, u16_add(overflow_checks, c.program_counter, opcode.len))
    ELSE c

\* if program_counter_state == self.program_counter { self.program_counter += len - 1 }
post_adjust(c, program_counter_state, opcode) ==
    IF program_counter_state = c.program_counter
    THEN set_program_counter(c, u16_add(overflow_checks, c.program_counter, opcode.len - 1))
    ELSE c

\* the loop body after the match, reached unless the handler panicked
loop_after_match(c, program_counter_state, opcode) ==
    IF c.halt = "panic" THEN c
    ELSE loop_callback(post_adjust(c, program_counter_state, opcode))

\* the match with a BRK that pushes PC and the status before it returns
loop_match_brk_pushes(c, opcode) ==
    IF opcode = OutOfBounds THEN PanicWith(c, "index out of bounds")
    ELSE IF opcode = NoOpcode THEN PanicWith(c, "OpCode is not recognized")
    ELSE IF opcode.mnemonic = "Brk"
         THEN [stack_push(stack_push_u16(c, c.program_counter), c.status)
                  EXCEPT !.halt = "brk"]
    ELSE loop_after_match(dispatch(c, opcode), c.program_counter, opcode)

\* let opcode = decode(raw_opcode); match opcode.mnemonic { ... }
loop_match(c, opcode) ==
    IF opcode = OutOfBounds THEN PanicWith(c, "index out of bounds")
    ELSE IF opcode = NoOpcode THEN PanicWith(c, "OpCode is not recognized")
    ELSE IF opcode.mnemonic = "Brk" THEN [c EXCEPT !.halt = "brk"]
    ELSE loop_after_match(dispatch(c, opcode), c.program_counter, opcode)

\* self.program_counter += 1; let program_counter_state = self.program_counter
loop_advance(c, raw_opcode) ==
    IF c.halt = "panic" THEN c ELSE loop_match(c, decode(raw_opcode))

\* let raw_opcode = self.mem_read(self.program_counter)
loop_fetch(c, raw_opcode) ==
    IF raw_opcode = PANIC THEN Panic(c)
    ELSE loop_advance(
            set_program_counter(c, u16_add(overflow_checks, c.program_counter, 1)),
            raw_opcode)

\* one iteration of the loop of run_with_callback
run_with_callback(c) ==
    loop_fetch([c EXCEPT !.stack_log = << >>], mem_read(c, c.program_counter))

\* load: the slice index panics before a byte is copied when the range ends past the array
\* the array m with program copied to [start, end): copy_from_slice
copy_from_slice(m, start, end, program) ==
    LET kept   == {a \in DOMAIN m : a < start \/ a >= end}
        copied == {start + i : i \in {j \in DOMAIN program.bytes : program.bytes[j] # 0}}
    IN  [a \in kept \cup copied |-> IF a \in copied THEN program.bytes[a - start] ELSE m[a]]

\* load with the arguments of mem_write_u16 exchanged
load_swapped_vector(c, program) ==
    IF PRG_ROM_START_ADDR + program.len > MEM_LEN
    THEN Panic([c EXCEPT !.stack_log = << >>])
    ELSE mem_write_u16(
            [c EXCEPT !.stack_log = << >>,
                      !.memory = copy_from_slice(@, PRG_ROM_START_ADDR,
                                                 PRG_ROM_START_ADDR + program.len, program)],
            PRG_ROM_START_ADDR, PRG_ROM_EXEC_ADDR)

load(c, program) ==
    IF PRG_ROM_START_ADDR + program.len > MEM_LEN
    THEN Panic([c EXCEPT !.stack_log = << >>])
    ELSE mem_write_u16(
            [c EXCEPT !.stack_log = << >>,
                      !.memory = copy_from_slice(@, PRG_ROM_START_ADDR,
                                                 PRG_ROM_START_ADDR + program.len, program)],
            PRG_ROM_EXEC_ADDR, PRG_ROM_START_ADDR)

\* reset that also zeroes the memory array
reset_clears_memory(c) ==
    set_program_counter(
        [c EXCEPT !.register_a = 0, !.register_x = 0, !.register_y = 0,
                  !.stack_ptr = STACK_RESET, !.status = CpuFlags_default,
                  !.stack_log = << >>, !.memory = << >>],
        mem_read_u16(c, PRG_ROM_EXEC_ADDR))

\* reset
reset(c) ==
    set_program_counter(
        [c EXCEPT !.register_a = 0, !.register_x = 0, !.register_y = 0,
                  !.stack_ptr = STACK_RESET, !.status = CpuFlags_default,
                  !.stack_log = << >>],
        mem_read_u16(c, PRG_ROM_EXEC_ADDR))

----------------------------------------------------------------------------
(* The host: what it calls, loads and runs *)

\* a program slice: its length and its bytes by offset (an offset not listed holds 0)
Program(bytes) == [len |-> Len(bytes), bytes |-> [i \in 0 .. Len(bytes) - 1 |-> bytes[i + 1]]]

\* the program's byte at offset i
ProgramByte(program, i) == IF i \in DOMAIN program.bytes THEN program.bytes[i] ELSE 0

\* the host's calls on the CPU other than load, reset and run
Write(addr, data) == [fn |-> "mem_write", addr |-> addr, data |-> data]
MsbCall(value) == [fn |-> "msb_to_carry_flag", value |-> value]
NoCall == [fn |-> "none"]

\* a host plan: calls on the new CPU, load(program), mem_write calls, then reset and run,
\* `n` times over
Input(calls, program, patches, n) ==
    [calls |-> calls, load |-> TRUE, program |-> program, patches |-> patches, resets |-> n,
     stop_after |-> 0]

\* a host that only makes calls on the new CPU
UnitInput(calls) ==
    [calls |-> calls, load |-> FALSE, program |-> Program(<< >>), patches |-> << >>,
     resets |-> 0, stop_after |-> 0]

\* a host whose observer raises its stop signal after its k-th call
ObservedInput(program, k) ==
    [calls |-> << >>, load |-> TRUE, program |-> program, patches |-> << >>, resets |-> 1,
     stop_after |-> k]

\* the byte values the inputs are drawn from
ByteSample == {0, 1, 127, 128, 255} \cup {v \in Byte : v % ByteStride = 0}

\* the tests of cpu.rs (mod tests)
TestInputs ==
    { Input(<< >>, Program(<<169, 5, 0>>), << >>, 1),
      Input(<<Write(16, 85)>>, Program(<<165, 16, 0>>), << >>, 1),
      Input(<< >>, Program(<<169, 0, 0>>), << >>, 1),
      Input(<< >>, Program(<<169, 10, 170, 0>>), << >>, 1),
      Input(<< >>, Program(<<169, 192, 170, 232, 0>>), << >>, 1),
      Input(<< >>, Program(<<169, 255, 170, 232, 232, 0>>), << >>, 1),
      UnitInput(<<MsbCall(128)>>) }

\* what the loop iteration about to run fetches: the opcode byte, its table entry, and
\* the operand address and byte its addressing mode gives (PANIC where there is none)
FetchOperand(c, raw, opcode, m) ==
    [pre |-> c, raw |-> raw, opcode |-> opcode, addr |-> m.addr, data |-> m.data]
FetchDecoded(c, raw, opcode) ==
    FetchOperand(c, raw, opcode,
        IF ~Decoded(opcode) THEN Operand(PANIC, PANIC)
        ELSE get_memory([c EXCEPT !.program_counter = (c.program_counter + 1) % U16],
                        opcode.mode))
FetchRaw(c, raw) == FetchDecoded(c, raw, IF raw = PANIC THEN NoOpcode ELSE decode(raw))
Fetch(c) == FetchRaw(c, mem_read(c, c.program_counter))

\* the CPU record c becomes the state
Becomes(c) ==
    /\ register_a' = c.register_a
    /\ register_x' = c.register_x
    /\ register_y' = c.register_y
    /\ status' = c.status
    /\ program_counter' = c.program_counter
    /\ stack_ptr' = c.stack_ptr
    /\ memory' = c.memory
    /\ halt' = c.halt
    /\ failure' = c.failure
    /\ observer_calls' = c.observer_calls
    /\ stop_signal' = c.stop_signal
    /\ stack_log' = c.stack_log

\* a call starts with no panic pending and an empty log
Enter == [Self EXCEPT !.halt = "none", !.failure = "none", !.stack_log = << >>]

\* the next run gets a new observer
NewObserver(c) == [c EXCEPT !.observer_calls = 0, !.stop_signal = FALSE]

\* the call `fn` leaves the CPU c: the host goes on to phase `then` unless the call
\* panicked or the run loop returned
Returns(fn, c, then) ==
    /\ Becomes(c)
    /\ phase' = CASE c.halt = "panic" -> "panicked"
                  [] c.halt = "brk" -> "returned"
                  [] OTHER -> then
    /\ last_call' = fn
    /\ mem_before' = memory

\* the plan's next call: on the new CPU before load, or between load and reset
NextCall ==
    IF phase = "new" /\ calls_done < Len(input.calls)
    THEN input.calls[calls_done + 1]
    ELSE IF phase = "loaded" /\ calls_done - Len(input.calls) < Len(input.patches)
         THEN input.patches[calls_done - Len(input.calls) + 1]
         ELSE NoCall

\* the host calls cpu.mem_write(addr, data)
MemWrite ==
    /\ NextCall.fn = "mem_write"
    /\ Returns("mem_write", mem_write(Enter, NextCall.addr, NextCall.data), phase)
    /\ calls_done' = calls_done + 1
    /\ UNCHANGED <<overflow_checks, input, resets, hist>>

\* a test calls cpu.msb_to_carry_flag(value) on the new CPU
MsbToCarryFlag ==
    /\ NextCall.fn = "msb_to_carry_flag"
    /\ Returns("msb_to_carry_flag", msb_to_carry_flag(Enter, NextCall.value), phase)
    /\ calls_done' = calls_done + 1
    /\ UNCHANGED <<overflow_checks, input, resets, hist>>

\* the host calls cpu.load(program)
Load ==
    /\ phase = "new"
    /\ input.load
    /\ NextCall = NoCall
    /\ Returns("load", load(Enter, input.program), "loaded")
    /\ UNCHANGED <<overflow_checks, input, calls_done, resets, hist>>

\* the host calls cpu.reset(): after load, or again after run has returned
Reset ==
    /\ \/ phase = "loaded" /\ NextCall = NoCall
       \/ phase = "returned"
    /\ resets < input.resets
    /\ resets < MaxResets
    /\ Returns("reset", reset(NewObserver(Enter)), "ready")
    /\ resets' = resets + 1
    /\ hist' = << >>
    /\ UNCHANGED <<overflow_checks, input, calls_done>>

\* one iteration of the loop of run(): fetch, dispatch, adjust the program counter, call back
Step ==
    /\ phase \in {"ready", "running"}
    /\ Len(hist) < MaxSteps
    /\ Returns("step", run_with_callback(Enter), "running")
    /\ hist' = Append(hist, Fetch(Self))
    /\ UNCHANGED <<overflow_checks, input, calls_done, resets>>

Next == MemWrite \/ MsbToCarryFlag \/ Load \/ Reset \/ Step

\* CPU::default() in the hands of a host with one of the plans of `inputs`, built in one
\* of the ways of `builds`
InitWith(inputs, builds) ==
    /\ register_a = CPU_default.register_a
    /\ register_x = CPU_default.register_x
    /\ register_y = CPU_default.register_y
    /\ status = CPU_default.status
    /\ program_counter = CPU_default.program_counter
    /\ stack_ptr = CPU_default.stack_ptr
    /\ memory = CPU_default.memory
    /\ halt = CPU_default.halt
    /\ failure = CPU_default.failure
    /\ observer_calls = CPU_default.observer_calls
    /\ stop_signal = CPU_default.stop_signal
    /\ stack_log = CPU_default.stack_log
    /\ phase = "new"
    /\ overflow_checks \in builds
    /\ input \in inputs
    /\ calls_done = 0
    /\ resets = 0
    /\ last_call = "new"
    /\ mem_before = << >>
    /\ hist = << >>

\* the tests of cpu.rs, in both builds
InitTests == InitWith(TestInputs, BOOLEAN)
Spec == InitTests /\ [][Next]_vars

----------------------------------------------------------------------------
(* What the last iteration did *)

\* an iteration has run since the last reset
Stepped == last_call = "step" /\ hist # << >>
\* the record of the last iteration
Last == hist[Len(hist)]
\* the last call was a loop iteration that ran to its end: no panic, and the loop goes on
Completed == Stepped /\ halt = "none"
\* the flag is set in the status register
Flag(flag) == contains(status, flag)
\* the byte memory holds at addr
Mem(addr) == array_get(memory, addr)

----------------------------------------------------------------------------
(* Branches *)

BranchOpcodes == {144, 176, 240, 48, 208, 16, 80, 112}

\* LDA #f; PHA; PLP; branch d: the branch runs with every flag equal to bit 0 of f
BranchInputs ==
    { Input(<< >>, Program(<<169, f, 72, 40, op, d>>), << >>, 1) :
        f \in {0, 255}, op \in BranchOpcodes, d \in Byte }

\* JMP to a branch the host wrote at the bottom or near the top of memory
BranchWrapInputs ==
    { Input(<<Write(at, op), Write(at + 1, d)>>,
            Program(<<76, at % 256, at \div 256>>), << >>, 1) :
        at \in {0, 65400}, op \in BranchOpcodes, d \in ByteSample }

InitBranch ==
    \/ InitWith(TestInputs \cup BranchWrapInputs, BOOLEAN)
    \/ InitWith(BranchInputs, {FALSE})
SpecBranch == InitBranch /\ [][Next]_vars

\* the branch predicate of the last iteration's opcode held when it ran
BranchTaken ==
    LET mn == Last.opcode.mnemonic  p == Last.pre.status IN
    CASE mn = "Bcc" -> ~contains(p, CARRY)
      [] mn = "Bcs" -> contains(p, CARRY)
      [] mn = "Beq" -> contains(p, ZERO)
      [] mn = "Bne" -> ~contains(p, ZERO)
      [] mn = "Bmi" -> contains(p, NEGATIV)
      [] mn = "Bpl" -> ~contains(p, NEGATIV)
      [] mn = "Bvc" -> ~contains(p, OVERFLOW)
      [] mn = "Bvs" -> contains(p, OVERFLOW)
      [] OTHER -> FALSE

\* the displacement byte of the last iteration's branch
Displacement == array_get(Last.pre.memory, (Last.pre.program_counter + 1) % U16)

\* sign_extend(d)
SignExtend(d) == IF d >= 128 THEN d - 256 ELSE d

\* C1: after a step of a branch whose predicate holds, with displacement byte d,
\* PC = (old_PC + 2 + sign_extend(d)) mod 2^16, old_PC the address of the branch opcode
C1_BranchTarget ==
    (Completed /\ BranchTaken) =>
        program_counter = (Last.pre.program_counter + 2 + SignExtend(Displacement) + U16) % U16

----------------------------------------------------------------------------
(* ADC and SBC *)

\* LDA #a; CLC or SEC; ADC #m; CLC or SEC; SBC #m
ArithInputs ==
    { Input(<< >>, Program(<<169, a, f, 105, m, g, 233, m, 0>>), << >>, 1) :
        a \in ByteSample, m \in ByteSample, f \in {24, 56}, g \in {24, 56} }

\* the same with the operand in zero page: ADC zp; CLC or SEC; SBC zp
ArithMemoryInputs ==
    { Input(<<Write(16, m)>>, Program(<<169, a, f, 101, 16, g, 229, 16, 0>>), << >>, 1) :
        a \in {0, 128, 255}, m \in ByteSample, f \in {24, 56}, g \in {24, 56} }

InitArith == InitWith(TestInputs \cup ArithInputs \cup ArithMemoryInputs, BOOLEAN)
SpecArith == InitArith /\ [][Next]_vars

\* the last three iterations were ADC m, a carry setting, SBC m, with the same operand m
AdcThenSbc ==
    /\ Completed
    /\ Len(hist) >= 3
    /\ hist[Len(hist) - 2].opcode.mnemonic = "Adc"
    /\ hist[Len(hist) - 1].opcode.mnemonic \in {"Clc", "Sec"}
    /\ Last.opcode.mnemonic = "Sbc"
    /\ hist[Len(hist) - 2].data = Last.data

\* the carry ADC ran with, the carry SBC ran with, the accumulator before ADC
AdcCarry == contains(hist[Len(hist) - 2].pre.status, CARRY)
SbcCarry == contains(Last.pre.status, CARRY)
AdcAccumulator == hist[Len(hist) - 2].pre.register_a

\* C2 as stated: ADC m with carry-in c, then SBC m with the carry set again to the same c,
\* returns the accumulator to the value it had before ADC
C2_SameCarryRoundTrip ==
    (AdcThenSbc /\ SbcCarry = AdcCarry) => register_a = AdcAccumulator

\* C2: ADC m with carry-in c, then SBC m with the carry set to the complement 1 - c,
\* returns the accumulator to the value it had before ADC, modulo 256
C2_ComplementCarryRoundTrip ==
    (AdcThenSbc /\ SbcCarry # AdcCarry) => register_a = AdcAccumulator

\* an ADC that wrapped past 255 is undone by SBC with the complemented carry
C2_Witness ==
    /\ AdcThenSbc
    /\ SbcCarry # AdcCarry
    /\ AdcAccumulator = 255
    /\ Last.data = 255
    /\ register_a = 255

----------------------------------------------------------------------------
(* Every opcode of the table, over registers, carry and memory *)

\* the opcode's operand bytes are 0x10 and 0x02: zero-page address 0x10, absolute address
\* 0x0210; these are the bytes the addressing modes reach from them with X = Y = 0 or 0xFF
OperandWrites(v) == <<Write(16, v), Write(15, v), Write(528, v), Write(783, v)>>

\* LDA #a; LDX #x; LDY #x; CLC or SEC; an opcode of `codes` with its operand bytes
InputsOfOpcodes(codes) ==
    { Input(OperandWrites(v), Program(<<169, a, 162, x, 160, x, f, code, 16, 2>>), << >>, 1) :
        code \in codes, a \in {0, 1, 127, 128, 255}, v \in ByteSample,
        x \in {0, 255}, f \in {24, 56} }

\* the opcodes of the table, and those of it with a mnemonic of `mnemonics`
TableOpcodes == {INSTRUCTION_ARRAY[k].code : k \in 1 .. Len(INSTRUCTION_ARRAY)}
OpcodesOf(mnemonics) == {code \in TableOpcodes : INSTRUCTIONS[code].mnemonic \in mnemonics}

OpcodeInputs == InputsOfOpcodes(TableOpcodes)

InitOpcodes == InitWith(TestInputs \cup OpcodeInputs, {FALSE})
SpecOpcodes == InitOpcodes /\ [][Next]_vars

\* the instructions that update Z and N
ZNMnemonics ==
    {"Lda", "Ldx", "Ldy", "Tax", "Tay", "Txa", "Tya", "Tsx", "Pla", "And", "Ora", "Eor",
     "Adc", "Sbc", "Asl", "Lsr", "Rol", "Ror", "Inc", "Dec", "Inx", "Iny", "Dex", "Dey",
     "Cmp", "Cpx", "Cpy"}

\* the value the last iteration's instruction affected: the register it loaded or
\* computed, the byte it wrote back to memory, or the difference a compare formed
AffectedValue ==
    LET mn == Last.opcode.mnemonic IN
    CASE mn \in {"Lda", "Txa", "Tya", "Pla", "And", "Ora", "Eor", "Adc", "Sbc"} -> register_a
      [] mn \in {"Ldx", "Tax", "Tsx", "Inx", "Dex"} -> register_x
      [] mn \in {"Ldy", "Tay", "Iny", "Dey"} -> register_y
      [] mn \in {"Asl", "Lsr", "Rol", "Ror"} ->
            IF Last.opcode.mode = "Accumulator" THEN register_a ELSE Mem(Last.addr)
      [] mn \in {"Inc", "Dec"} -> Mem(Last.addr)
      [] mn = "Cmp" -> u8_wrapping_sub(Last.pre.register_a, Last.data)
      [] mn = "Cpx" -> u8_wrapping_sub(Last.pre.register_x, Last.data)
      [] mn = "Cpy" -> u8_wrapping_sub(Last.pre.register_y, Last.data)

\* C3: after every step of an instruction that updates Z and N, Z is set exactly when the
\* affected 8-bit value is 0 and N equals its bit 7; for the memory variants the affected
\* value is the byte written back
C3_ZeroNegative ==
    (Completed /\ Last.opcode.mnemonic \in ZNMnemonics) =>
        /\ Flag(ZERO) <=> AffectedValue = 0
        /\ Flag(NEGATIV) <=> Bit(AffectedValue, 7) = 1

\* DEC of a memory byte 0 wrote back 0xFF: N set, Z clear
C3_Witness ==
    /\ Completed
    /\ Last.opcode.mnemonic = "Dec"
    /\ Last.data = 0
    /\ Mem(Last.addr) = 255
    /\ Flag(NEGATIV)
    /\ ~Flag(ZERO)

----------------------------------------------------------------------------
(* The stack *)

\* PHA, PHP, PLA, PLP
StackOpcodes == {72, 8, 104, 40}

\* LDA #a, then up to MaxStackOps pushes and pulls in any order
StackInputs ==
    { Input(<< >>, Program(<<169, a>> \o ops), << >>, 1) :
        a \in ByteSample, ops \in UNION {[1 .. n -> StackOpcodes] : n \in 0 .. MaxStackOps} }

\* k pulls, then JSR to an RTS that returns to a BRK
PullsThenJsr(k) == [i \in 1 .. k |-> 104] \o <<32, k + 4, 6, 0, 96>>

StackEdgeInputs ==
    { Input(<< >>, Program(PullsThenJsr(k)), << >>, 1) : k \in 0 .. 4 }
    \cup
    \* the return address and a status byte v pushed by hand, then RTI to a BRK
    { Input(<< >>, Program(<<169, 6, 72, 169, 11, 72, 169, v, 72, 64, 0, 0>>), << >>, 1) :
        v \in ByteSample }
    \cup
    \* RTS on the reset stack, and on a pushed 0xFFFF
    { Input(<< >>, Program(<<96>>), << >>, 1),
      Input(<< >>, Program(<<169, 255, 72, 72, 96>>), << >>, 1),
    \* PHA; PLA in the stack page itself, under the stack pointer
      Input(<<Write(508, 72), Write(509, 104)>>, Program(<<169, 104, 76, 252, 1>>), << >>, 1),
    \* RTI on the reset stack: its three pops wrap from 0x01FF to 0x0100
      Input(<<Write(510, 153), Write(511, 5), Write(256, 6)>>, Program(<<64, 0, 0, 0, 0, 0>>),
            << >>, 1) }

InitStack ==
    \/ InitWith(TestInputs \cup StackEdgeInputs, BOOLEAN)
    \/ InitWith(StackInputs, {FALSE})
SpecStack == InitStack /\ [][Next]_vars

\* the stack accesses of iteration k
StepLog(k) == IF k = Len(hist) THEN stack_log ELSE hist[k + 1].pre.stack_log

\* the number of `op` accesses ("push" or "pop") of iterations i .. j - 1
Accesses(op, i, j) ==
    Cardinality({ e \in UNION { {k} \X DOMAIN StepLog(k) : k \in i .. j - 1 } :
                    StepLog(e[1])[e[2]].op = op })

\* S before iteration k; after the last iteration for k = Len(hist) + 1
StackPtrAt(k) == IF k = Len(hist) + 1 THEN stack_ptr ELSE hist[k].pre.stack_ptr

\* C4: in every reachable state S is in 0..255 and PC in 0..0xFFFF, every stack push or
\* pop reads or writes only an address of page 0x01, and S moves by one per access,
\* wrapping modulo 256 at both ends
C4_StackPage ==
    /\ stack_ptr \in 0 .. 255
    /\ program_counter \in 0 .. 65535
    /\ \A i \in DOMAIN stack_log : stack_log[i].addr \in STACK_START .. STACK_MEMORY_END
    /\ Stepped =>
        stack_ptr = (Last.pre.stack_ptr + U8 + Accesses("pop", Len(hist), Len(hist) + 1)
                        - Accesses("push", Len(hist), Len(hist) + 1)) % U8

\* JSR with S = 0x00 pushed to 0x0100 and then to 0x01FF, leaving S = 0xFE
C4_Witness ==
    /\ Completed
    /\ Last.opcode.mnemonic = "Jsr"
    /\ Last.pre.stack_ptr = 0
    /\ Len(stack_log) = 2
    /\ stack_log[1].addr = STACK_START
    /\ stack_log[2].addr = STACK_MEMORY_END
    /\ stack_ptr = 254

\* the last two iterations were `first` and then `second`
LastTwo(first, second) ==
    /\ Completed
    /\ Len(hist) >= 2
    /\ hist[Len(hist) - 1].opcode.mnemonic = first
    /\ Last.opcode.mnemonic = second

\* the CPU before the first of the last two iterations
BeforeLastTwo == hist[Len(hist) - 1].pre

\* the flags C, Z, I, D, V, N of a status byte: all but B and U
SixFlags(p) == BitAnd(p, CpuFlags_all - BREAK - BREAK2)

\* C5: PHA; PLA leaves A equal to its value before PHA with Z and N set from it, and
\* PHP; PLP leaves the flags C, Z, I, D, V, N equal to their values before PHP; in both
\* cases S returns to its starting value
C5_PushPullRoundTrip ==
    /\ LastTwo("Pha", "Pla") =>
        /\ register_a = BeforeLastTwo.register_a
        /\ Flag(ZERO) <=> BeforeLastTwo.register_a = 0
        /\ Flag(NEGATIV) <=> Bit(BeforeLastTwo.register_a, 7) = 1
        /\ stack_ptr = BeforeLastTwo.stack_ptr
    /\ LastTwo("Php", "Plp") =>
        /\ SixFlags(status) = SixFlags(BeforeLastTwo.status)
        /\ stack_ptr = BeforeLastTwo.stack_ptr

\* PHP; PLP with every flag set, and PHA; PLA of a negative A across the wrap of S
C5_Witness ==
    \/ /\ LastTwo("Php", "Plp")
       /\ SixFlags(BeforeLastTwo.status) = SixFlags(CpuFlags_all)
       /\ SixFlags(status) = SixFlags(CpuFlags_all)
    \/ /\ LastTwo("Pha", "Pla")
       /\ BeforeLastTwo.stack_ptr = 0
       /\ BeforeLastTwo.register_a = 0
       /\ register_a = 0

\* C6: between any two points of a run with as many pushes as pops in between, S is the
\* same, whatever S was at the first point and whether or not it wrapped
C6_BalancedStackPointer ==
    \A i \in 1 .. Len(hist), j \in 2 .. Len(hist) + 1 :
        (i < j /\ Accesses("push", i, j) = Accesses("pop", i, j)) =>
            StackPtrAt(i) = StackPtrAt(j)

\* a pull at S = 0xFF wrapped S to 0x00 and a later push brought it back to 0xFF
C6_Witness ==
    \E i \in 1 .. Len(hist), j \in 2 .. Len(hist) + 1 :
        /\ i < j
        /\ StackPtrAt(i) = 255
        /\ StackPtrAt(i + 1) = 0
        /\ Accesses("push", i, j) = 1
        /\ Accesses("pop", i, j) = 1
        /\ StackPtrAt(j) = 255

----------------------------------------------------------------------------
(* new, load and reset *)

\* the longest program that ends below the reset vector
LoadEdge == PRG_ROM_EXEC_ADDR - PRG_ROM_START_ADDR

\* LDA #5; BRK; zeroes; and the byte t in its last two places
LongProgram(n, t) ==
    [len |-> n, bytes |-> [i \in {0, 1, n - 2, n - 1} |->
        CASE i = 0 -> 169 [] i = 1 -> 5 [] OTHER -> t]]

\* programs that end just below, on and past the reset vector and the end of memory
LongInputs ==
    { Input(<< >>, LongProgram(LoadEdge + k, t), << >>, 1) : k \in 0 .. 5, t \in {0, 171} }

\* a byte written before load, in zero page, and the LDA that reads it
ZeroPageInputs ==
    { Input(<<Write(z, v)>>, Program(<<165, z, 0>>), << >>, 1) :
        z \in {0, 16, 255}, v \in ByteSample }

\* bytes written before load around the program range and the reset vector
FrameInputs ==
    { Input(<<Write(w, 85), Write(16, 85)>>, Program(<<169, 5, 0>>), << >>, n) :
        w \in {256, 1535, 1536, 1538, 1539, 65531, 65532, 65533, 65534}, n \in 1 .. 2 }

\* the reset vector rewritten after load; reset again after a run that changed every register
ResetInputs ==
    { Input(<< >>, Program(<<169, 5, 0, 162, 7, 0>>), <<Write(at, v)>>, 2) :
        at \in {65532, 65533}, v \in {0, 3, 6} }
    \cup
    { Input(<< >>, Program(<<169, 255, 170, 168, 72, 72, 56, 248, 120, 0>>), << >>, 3) }

\* msb_to_carry_flag on the new CPU
MsbInputs ==
    { UnitInput(<<MsbCall(v)>>) : v \in ByteSample }
    \cup { UnitInput(<<MsbCall(v), MsbCall(w)>>) : v \in {0, 128}, w \in {0, 128} }

InitLoad ==
    InitWith(TestInputs \cup LongInputs \cup ZeroPageInputs \cup FrameInputs
                \cup ResetInputs \cup MsbInputs, BOOLEAN)
SpecLoad == InitLoad /\ [][Next]_vars

\* the little-endian word at the reset vector
ResetVector == from_le_bytes(Mem(PRG_ROM_EXEC_ADDR), Mem(PRG_ROM_EXEC_ADDR + 1))

\* C7: reset() leaves S = 0xFD, A = X = Y = 0, the status register at its initial value,
\* in which the interrupt-disable flag I is set, and PC equal to the little-endian word
\* at 0xFFFC/0xFFFD
C7_ResetState ==
    last_call = "reset" =>
        /\ halt = "none"
        /\ stack_ptr = STACK_RESET
        /\ register_a = 0 /\ register_x = 0 /\ register_y = 0
        /\ status = CpuFlags_default
        /\ Flag(INTERUPT_DISABLE)
        /\ program_counter = ResetVector

\* one past the last address of the program
ProgramEnd == PRG_ROM_START_ADDR + input.program.len

\* every program byte i is at start + i, and the reset vector holds start
ProgramStored ==
    /\ halt = "none"
    /\ \A i \in 0 .. input.program.len - 1 :
            Mem(PRG_ROM_START_ADDR + i) = ProgramByte(input.program, i)
    /\ ResetVector = PRG_ROM_START_ADDR

\* the last call was the reset() that follows load(program) directly
ResetAfterLoad == last_call = "reset" /\ resets = 1 /\ input.patches = << >>

C9_NewCpuCarry ==
    /\ last_call = "new" => ~Flag(CARRY)
    /\ last_call = "msb_to_carry_flag" =>
            (Flag(CARRY) <=> Bit(input.calls[calls_done].value, 7) = 1)

\* the addresses load may write: the program's range and the reset vector bytes
LoadMayWrite(a) ==
    \/ PRG_ROM_START_ADDR <= a /\ a < ProgramEnd
    \/ a \in {PRG_ROM_EXEC_ADDR, PRG_ROM_EXEC_ADDR + 1}

\* the host's writes to addr before load
WritesTo(addr) ==
    {i \in DOMAIN input.calls : input.calls[i].fn = "mem_write" /\ input.calls[i].addr = addr}

\* the byte the host wrote last to addr
Written(addr) == input.calls[CHOOSE i \in WritesTo(addr) : \A j \in WritesTo(addr) : j <= i].data

\* the first instruction of the run was LDA zero-page, of a byte the host wrote before load
LdaOfWritten ==
    /\ Completed
    /\ Len(hist) = 1
    /\ Last.opcode.code = 165
    /\ input.patches = << >>
    /\ WritesTo(Last.addr) # {}

\* C10: load changes no memory byte outside the program's range and the reset vector
\* bytes, reset changes no memory byte, and a byte written before load is what a
\* LDA zero-page at the start of the run loads into A
C10_LoadResetFrame ==
    /\ last_call = "load" =>
            \A a \in DOMAIN memory \cup DOMAIN mem_before :
                ~LoadMayWrite(a) => Mem(a) = array_get(mem_before, a)
    /\ last_call = "reset" => memory = mem_before
    /\ LdaOfWritten => register_a = Written(Last.addr)

\* 0x55 written to 0x0010 before load is in A after LDA 0x10
C10_Witness ==
    /\ LdaOfWritten
    /\ Last.addr = 16
    /\ Written(16) = 85
    /\ Mem(16) = 85
    /\ register_a = 85

----------------------------------------------------------------------------
(* Loads, increments and decrements *)

\* LDA #v; BRK and LDA #v; TAX; INX; BRK, for every byte v
LdaInputs == { Input(<< >>, Program(<<169, v, 0>>), << >>, 1) : v \in Byte }
InxInputs == { Input(<< >>, Program(<<169, v, 170, 232, 0>>), << >>, 1) : v \in Byte }

\* the loads, increments and decrements of the table in all their addressing modes
RegisterInputs ==
    InputsOfOpcodes(OpcodesOf({"Lda", "Ldx", "Ldy", "Inc", "Dec", "Inx", "Iny", "Dex", "Dey"}))

InitRegisters ==
    InitWith(TestInputs \cup LdaInputs \cup InxInputs \cup RegisterInputs, {FALSE})
SpecRegisters == InitRegisters /\ [][Next]_vars

\* the host's plan is load_and_run of exactly `bytes`
Runs(bytes) ==
    /\ input.calls = << >>
    /\ input.patches = << >>
    /\ input.program.len = Len(bytes)
    /\ \A i \in 1 .. Len(bytes) : ProgramByte(input.program, i - 1) = bytes[i]

\* the run has fetched n opcodes and returned
ReturnedAfter(n) == last_call = "step" /\ Len(hist) = n /\ halt = "brk"

\* the status bits outside `flags` are as they were before the last iteration
FlagsKeptExcept(flags) ==
    BitAnd(status, CpuFlags_all - flags) = BitAnd(Last.pre.status, CpuFlags_all - flags)

\* C11: for every byte v the program [LDA #v, BRK] ends with A = v, Z = 1 exactly when
\* v = 0 and N = bit 7 of v; LDA, LDX and LDY set their target register to the fetched
\* byte and change nothing else but Z, N and PC
C11_Loads ==
    /\ \A v \in Byte :
        (Runs(<<169, v, 0>>) /\ last_call = "step" /\ Len(hist) = 2) =>
            /\ halt = "brk"
            /\ register_a = v
            /\ Flag(ZERO) <=> v = 0
            /\ Flag(NEGATIV) <=> Bit(v, 7) = 1
    /\ (Completed /\ Last.opcode.mnemonic \in {"Lda", "Ldx", "Ldy"}) =>
        /\ program_counter = Last.pre.program_counter + Last.opcode.len
        /\ register_a = IF Last.opcode.mnemonic = "Lda" THEN Last.data ELSE Last.pre.register_a
        /\ register_x = IF Last.opcode.mnemonic = "Ldx" THEN Last.data ELSE Last.pre.register_x
        /\ register_y = IF Last.opcode.mnemonic = "Ldy" THEN Last.data ELSE Last.pre.register_y
        /\ stack_ptr = Last.pre.stack_ptr
        /\ memory = Last.pre.memory
        /\ FlagsKeptExcept(ZERO + NEGATIV)

\* [LDA #0x80, BRK] has returned with A = 0x80 and N set, Z clear
C11_Witness ==
    /\ Runs(<<169, 128, 0>>)
    /\ ReturnedAfter(2)
    /\ register_a = 128
    /\ Flag(NEGATIV)
    /\ ~Flag(ZERO)

\* the value the last iteration's increment or decrement started from, and the value
\* it left in the same place
CountedFrom ==
    LET mn == Last.opcode.mnemonic IN
    CASE mn \in {"Inx", "Dex"} -> Last.pre.register_x
      [] mn \in {"Iny", "Dey"} -> Last.pre.register_y
      [] mn \in {"Inc", "Dec"} -> Last.data
CountedTo ==
    LET mn == Last.opcode.mnemonic IN
    CASE mn \in {"Inx", "Dex"} -> register_x
      [] mn \in {"Iny", "Dey"} -> register_y
      [] mn \in {"Inc", "Dec"} -> Mem(Last.addr)

\* C12: INX, INY and INC add 1 and DEX, DEY and DEC subtract 1, modulo 256, with Z set
\* exactly when the result is 0; for every byte v the program [LDA #v, TAX, INX, BRK] ends
\* with X = (v + 1) mod 256
C12_IncrementDecrement ==
    /\ \A v \in Byte :
        (Runs(<<169, v, 170, 232, 0>>) /\ last_call = "step" /\ Len(hist) = 4) =>
            /\ halt = "brk"
            /\ register_x = (v + 1) % U8
    /\ (Completed /\ Last.opcode.mnemonic \in {"Inx", "Iny", "Inc"}) =>
        /\ CountedTo = (CountedFrom + 1) % U8
        /\ Flag(ZERO) <=> CountedFrom = 255
    /\ (Completed /\ Last.opcode.mnemonic \in {"Dex", "Dey", "Dec"}) =>
        /\ CountedTo = (CountedFrom + U8 - 1) % U8
        /\ Flag(ZERO) <=> CountedFrom = 1

\* [LDA #0xFF, TAX, INX, INX, BRK]: the first INX left X = 0 with Z set, the second
\* X = 1 with Z clear
C12_Witness ==
    /\ Runs(<<169, 255, 170, 232, 232, 0>>)
    /\ ReturnedAfter(5)
    /\ hist[3].pre.register_x = 255
    /\ hist[4].pre.register_x = 0
    /\ contains(hist[4].pre.status, ZERO)
    /\ register_x = 1
    /\ ~Flag(ZERO)

----------------------------------------------------------------------------
(* The run loop: return, observer, failures *)

\* A, X, Y, S, P and memory are as they were before the last iteration
StateKept ==
    /\ register_a = Last.pre.register_a
    /\ register_x = Last.pre.register_x
    /\ register_y = Last.pre.register_y
    /\ stack_ptr = Last.pre.stack_ptr
    /\ status = Last.pre.status
    /\ memory = Last.pre.memory

\* C13: the run loop returns when, and only when, the fetched opcode is BRK; the BRK
\* step changes nothing except PC (nothing is pushed), and PC is the address
\* immediately after the BRK opcode
C13_ReturnOnBrk ==
    /\ Stepped => (halt = "brk" <=> Last.raw = 0)
    /\ phase = "returned" <=> (Stepped /\ halt = "brk")
    /\ (Stepped /\ halt = "brk") =>
        /\ StateKept
        /\ stack_log = << >>
        /\ program_counter = Last.pre.program_counter + 1

\* the run returned on its sixth opcode, a BRK, with X = 0xFF as before it
C13_Witness ==
    /\ ReturnedAfter(6)
    /\ Last.raw = 0
    /\ Last.pre.register_x = 255
    /\ register_x = 255
    /\ program_counter = Last.pre.program_counter + 1

\* LDA #v; TAX; INX; BRK under an observer that raises its stop signal after its k-th
\* call, or never (k = 0)
ObserverInputs ==
    { ObservedInput(Program(<<169, v, 170, 232, 0>>), k) : v \in ByteSample, k \in 0 .. 4 }

InitObserver == InitWith(TestInputs \cup ObserverInputs, BOOLEAN)
SpecObserver == InitObserver /\ [][Next]_vars

\* C14: the observer is called exactly once after every executed instruction, the BRK
\* step included: the number of observer calls equals the number of opcodes fetched
C14_ObserverEveryStep ==
    (Stepped /\ halt # "panic") => observer_calls = Len(hist)

\* C15: once the observer has raised its stop signal after step N, no opcode of
\* step N + 1 is fetched
C15_StopSignalHonoured ==
    stop_signal => Len(hist) <= input.stop_after

\* LDA #a; PHA; then a byte the table has no entry for
UnknownInputs ==
    { Input(<< >>, Program(<<169, a, 72, code>>), << >>, 1) :
        a \in {0, 255}, code \in Byte \ TableOpcodes }

\* steps that fail after LDA #a; PHA: TSX, TXS, ASL A, LDA and STA at 0xFFFF, and a
\* fetch at 0xFFFF
FailingInputs ==
    { Input(<< >>, Program(<<169, a, 72>> \o tail), << >>, 1) :
        a \in {0, 255},
        tail \in {<<186>>, <<154>>, <<10>>, <<173, 255, 255>>, <<141, 255, 255>>,
                  <<76, 255, 255>>} }
    \cup
    \* RTS to a pushed 0xFFFF; JSR at 0xFFFD, reached through the reset vector and a JMP
    { Input(<< >>, Program(<<169, 255, 72, 72, 96>>), << >>, 1),
      Input(<<Write(8192, 76), Write(8193, 253), Write(8194, 255)>>, Program(<<0>>),
            <<Write(65532, 0), Write(65533, 32)>>, 1) }

\* a byte written to an address and read back by LDA absolute
MemoryInputs ==
    { Input(<<Write(a, v)>>, Program(<<173, a % 256, a \div 256, 0>>), << >>, 1) :
        a \in {0, 255, 256, 2047, 2048, 8191, 8192, 32768, 65534, 65535},
        v \in ByteSample }

InitFailures ==
    InitWith(TestInputs \cup UnknownInputs \cup FailingInputs \cup MemoryInputs, BOOLEAN)
SpecFailures == InitFailures /\ [][Next]_vars

\* C16: when the fetched opcode byte has no table entry (0xFF included), the run loop
\* halts with the unknown-opcode failure and A, X, Y, S, P and memory are unchanged
C16_UnknownOpcode ==
    (Stepped /\ Last.raw \in Byte \ TableOpcodes) =>
        /\ halt = "panic"
        /\ failure = "OpCode is not recognized"
        /\ StateKept

----------------------------------------------------------------------------
(* load: what it refuses and what it accepts *)

\* C17: load of a program that would extend past the end of memory (start + len > 2^16)
\* fails and leaves registers, flags and every memory byte unchanged; a program that is
\* accepted is stored in full, none of its bytes overwritten by the reset-vector write
C17_LoadOverflow ==
    last_call = "load" =>
        IF ProgramEnd > U16
        THEN /\ halt = "panic"
             /\ memory = mem_before
             /\ register_a = CPU_default.register_a
             /\ register_x = CPU_default.register_x
             /\ register_y = CPU_default.register_y
             /\ stack_ptr = CPU_default.stack_ptr
             /\ status = CPU_default.status
             /\ program_counter = CPU_default.program_counter
        ELSE /\ halt = "none"
             /\ \A i \in 0 .. input.program.len - 1 :
                    Mem(PRG_ROM_START_ADDR + i) = ProgramByte(input.program, i)

----------------------------------------------------------------------------
(* Failing steps and memory accesses *)

\* C18: a step that fails leaves none of its side effects: A, X, Y, S, P and memory
\* equal their values before the step, and a failing JSR has pushed nothing
C18_AtomicStep ==
    (Stepped /\ halt = "panic") =>
        /\ StateKept
        /\ Last.opcode.mnemonic = "Jsr" => stack_log = << >>

\* the call of the host's plan made last
LastHostCall ==
    IF calls_done <= Len(input.calls)
    THEN input.calls[calls_done]
    ELSE input.patches[calls_done - Len(input.calls)]

\* C19: for every 16-bit address a, 0xFFFF included, mem_write(a, b) succeeds and
\* leaves b at a, and a read of a (by LDA absolute) succeeds and returns the byte there
C19_EveryAddress ==
    /\ last_call = "mem_write" =>
        /\ halt = "none"
        /\ Mem(LastHostCall.addr) = LastHostCall.data
    /\ (Stepped /\ Last.opcode.code = 173) =>
        /\ halt = "none"
        /\ register_a = Mem(Last.addr)

\* C20: for every opcode byte populated in the table, a step whose operand is not at the
\* address past the end of the memory array completes: no unimplemented mnemonic, no
\* rejected addressing mode
C20_EveryOpcodeHandled ==
    (Stepped /\ Last.raw \in TableOpcodes /\ Last.addr # MEM_LEN) => halt # "panic"

----------------------------------------------------------------------------
(* The lookup table *)

\* the slots of the table that hold an entry
PopulatedSlots == {slot \in DOMAIN INSTRUCTIONS : INSTRUCTIONS[slot] # NoOpcode}
\* the entries of the list whose code is the byte b
EntriesOf(b) == {k \in 1 .. Len(INSTRUCTION_ARRAY) : INSTRUCTION_ARRAY[k].code = b}

\* C21: the table has a slot for each of the 256 opcode bytes, as many populated slots as
\* the list has entries (151), no two entries of the list share a code byte, and the
\* opcode the loop decoded from a byte is the entry of the list with that code
C21_TableOfList ==
    /\ DOMAIN INSTRUCTIONS = Byte
    /\ Cardinality(PopulatedSlots) = Len(INSTRUCTION_ARRAY)
    /\ \A b \in Byte : Cardinality(EntriesOf(b)) <= 1
    /\ (Stepped /\ Decoded(Last.opcode)) =>
            \A k \in EntriesOf(Last.raw) : Last.opcode = INSTRUCTION_ARRAY[k]

----------------------------------------------------------------------------
(* Jumps and subroutines *)

\* the pointers of the indirect jumps: inside a page, at its last byte, at its first
JumpPointers == {16, 255, 767, 768}

\* JMP (ptr) with `page` at ptr & 0xFF00, then lo at ptr and hi at ptr + 1
JmpIndirectInputs ==
    { Input(<< >>, Program(<<108, ptr % 256, ptr \div 256>>),
            <<Write(ptr - (ptr % 256), page), Write(ptr, lo), Write(ptr + 1, hi)>>, 1) :
        ptr \in JumpPointers, lo \in {0, 1, 16, 255}, hi \in {0, 6}, page \in {2, 6} }

\* JMP lo hi and JSR lo hi
JmpAbsoluteInputs ==
    { Input(<< >>, Program(<<op, lo, hi>>), << >>, 1) :
        op \in {76, 32}, lo \in ByteSample, hi \in {0, 6, 255} }

\* `pad` NOPs; JSR sub; INX; BRK; sub: `body`; RTS
Subroutine(pad, body) ==
    Program(pad \o <<32, (Len(pad) + 5) % 256, 6, 232, 0>> \o body \o <<96>>)

SubroutineBodies ==
    { << >>, <<72, 104>>, <<8, 40>>, <<72, 8, 40, 104>>, <<232, 200>> }

\* a JSR of the program, and one placed at 0x02FD, whose last byte ends its page
JsrInputs ==
    { Input(<< >>, Subroutine(pad, body), << >>, 1) :
        pad \in {<< >>, <<234>>, <<234, 234>>}, body \in SubroutineBodies }
    \cup
    { Input(<< >>, Program(<<76, 253, 2>>),
            <<Write(765, 32), Write(766, 16), Write(767, 3), Write(768, 232)>>
                \o [i \in 1 .. Len(body) + 1 |-> Write(783 + i, (body \o <<96>>)[i])], 1) :
        body \in SubroutineBodies }

JumpInputs == JmpIndirectInputs \cup JmpAbsoluteInputs \cup JsrInputs

InitJumps == InitWith(TestInputs \cup JumpInputs, BOOLEAN)
SpecJumps == InitJumps /\ [][Next]_vars

\* the little-endian word the memory `mem` holds at addr and addr + 1
WordAt(mem, addr) == from_le_bytes(array_get(mem, addr), array_get(mem, addr + 1))
\* the operand word of the last iteration's instruction
OperandWord == WordAt(Last.pre.memory, Last.pre.program_counter + 1)
\* the target of JMP (ptr)
IndirectTarget(mem, ptr) ==
    IF ptr % 256 = 255
    THEN from_le_bytes(array_get(mem, ptr), array_get(mem, ptr - 255))
    ELSE WordAt(mem, ptr)

\* C22: after a JMP Indirect with pointer ptr, PC is the target: its low byte read from
\* ptr, its high byte from ptr & 0xFF00 when the low byte of ptr is 0xFF and from ptr + 1
\* otherwise
C22_JmpIndirect ==
    (Completed /\ Last.raw = 108) =>
        program_counter = IndirectTarget(Last.pre.memory, OperandWord)

\* C27: after JMP Absolute and after JSR, PC is the little-endian operand, also when the
\* operand is the address of the instruction's first operand byte
C27_HandlerSetsPC ==
    (Completed /\ Last.raw \in {76, 32}) => program_counter = OperandWord

----------------------------------------------------------------------------
(* Indexed and indirect addressing *)

\* LDA, LDX, STA and STX through the indexed and the indirect modes
IndexedOpcodes == {181, 182, 189, 185, 161, 177, 149, 150, 157, 153, 129, 145}

\* LDA #0x5A; LDX #x; LDY #y; the opcode with operand bytes b, hi. Page zero holds pointers
\* at 0xFF/0x00 and 0x10/0x11, and 0x0100 a byte no pointer reads
IndexedInputs ==
    { Input(<<Write(0, 2), Write(1, 3), Write(16, 255), Write(17, 255), Write(254, 16),
              Write(255, 240), Write(256, 7), Write(752, 119), Write(1008, 51)>>,
            Program(<<169, 90, 162, x, 160, y, code, b, hi>>), << >>, 1) :
        code \in IndexedOpcodes, b \in {16, 254, 255}, hi \in {2, 255},
        x \in {0, 1, 255}, y \in {0, 1, 255} }

InitIndexed == InitWith(TestInputs \cup IndexedInputs, {FALSE})
SpecIndexed == InitIndexed /\ [][Next]_vars

\* the operand byte and the operand word of the last iteration's instruction
OperandByte == array_get(Last.pre.memory, Last.pre.program_counter + 1)
\* the word page zero holds at p and (p + 1) mod 256
ZeroPageWord(p) ==
    from_le_bytes(array_get(Last.pre.memory, p), array_get(Last.pre.memory, (p + 1) % 256))

\* the address the last iteration's instruction works on, by its addressing mode
EffectiveAddress ==
    LET mode == Last.opcode.mode
        X == Last.pre.register_x
        Y == Last.pre.register_y
    IN  CASE mode = "ZeroPage_X" -> (OperandByte + X) % 256
          [] mode = "ZeroPage_Y" -> (OperandByte + Y) % 256
          [] mode = "Absolute_X" -> (OperandWord + X) % U16
          [] mode = "Absolute_Y" -> (OperandWord + Y) % U16
          [] mode = "Indirect_X" -> ZeroPageWord((OperandByte + X) % 256)
          [] mode = "Indirect_Y" -> (ZeroPageWord(OperandByte) + Y) % U16

IndexedModes ==
    {"ZeroPage_X", "ZeroPage_Y", "Absolute_X", "Absolute_Y", "Indirect_X", "Indirect_Y"}

\* C23: ZeroPageX and ZeroPageY address (b + X) mod 256 and (b + Y) mod 256; IndirectX
\* and IndirectY read the pointer's high byte from (p + 1) mod 256; the + Y of IndirectY
\* and the Absolute indexed modes wrap at 16 bits. A load reads that address, a store
\* writes it
C23_ZeroPageWraps ==
    (Completed /\ Last.opcode.mode \in IndexedModes) =>
        /\ Last.addr = EffectiveAddress
        /\ Last.opcode.mnemonic = "Lda" =>
                register_a = array_get(Last.pre.memory, EffectiveAddress)
        /\ Last.opcode.mnemonic = "Ldx" =>
                register_x = array_get(Last.pre.memory, EffectiveAddress)
        /\ Last.opcode.mnemonic = "Sta" => Mem(EffectiveAddress) = Last.pre.register_a
        /\ Last.opcode.mnemonic = "Stx" => Mem(EffectiveAddress) = Last.pre.register_x
\* LDA b,X with b + X past 0xFF has read page zero
C23_Witness ==
    /\ Completed
    /\ Last.raw = 181
    /\ OperandByte + Last.pre.register_x > 255
    /\ register_a = Mem((OperandByte + Last.pre.register_x) % 256)
    /\ register_a # Mem(OperandByte + Last.pre.register_x)

----------------------------------------------------------------------------
(* Compares *)

\* the register the last iteration's compare read, before the step
Compared ==
    CASE Last.opcode.mnemonic = "Cmp" -> Last.pre.register_a
      [] Last.opcode.mnemonic = "Cpx" -> Last.pre.register_x
      [] Last.opcode.mnemonic = "Cpy" -> Last.pre.register_y

\* C24: a compare of register r with operand m sets C = (r >= m), Z = (r = m) and N = bit
\* 7 of (r - m) mod 256, and changes no register, no memory byte and no other flag
C24_Compare ==
    (Completed /\ Last.opcode.mnemonic \in {"Cmp", "Cpx", "Cpy"}) =>
        /\ Flag(CARRY) = (Compared >= Last.data)
        /\ Flag(ZERO) = (Compared = Last.data)
        /\ Flag(NEGATIV) = (Bit((Compared - Last.data + 256) % 256, 7) = 1)
        /\ register_a = Last.pre.register_a
        /\ register_x = Last.pre.register_x
        /\ register_y = Last.pre.register_y
        /\ stack_ptr = Last.pre.stack_ptr
        /\ memory = Last.pre.memory
        /\ FlagsKeptExcept(CARRY + ZERO + NEGATIV)
\* CMP of a memory operand equal to A has set Z and C
C24_Witness ==
    /\ Completed
    /\ Last.raw = 197
    /\ Last.data = Last.pre.register_a
    /\ Last.data = Mem(16)
    /\ Flag(ZERO)
    /\ Flag(CARRY)

----------------------------------------------------------------------------
(* Shifts *)

\* the opcode of ASL on the accumulator
AslAccumulator == Last.raw = 10
\* the value the last iteration's ASL shifts, and where its result is after the step
AslOperand == IF AslAccumulator THEN Last.pre.register_a ELSE Last.data
AslResult == IF AslAccumulator THEN register_a ELSE Mem(Last.addr)

\* C25: ASL, through the accumulator opcode 0x0A and through the memory opcodes, sets C to
\* the old bit 7, leaves the value shifted left in A or in memory, and sets Z and N from
\* the result
C25_Asl ==
    (Stepped /\ Last.opcode.mnemonic = "Asl" /\ (AslAccumulator \/ Last.data # PANIC)) =>
        /\ halt = "none"
        /\ Flag(CARRY) = (Bit(AslOperand, 7) = 1)
        /\ AslResult = (AslOperand * 2) % 256
        /\ Flag(ZERO) = (AslResult = 0)
        /\ Flag(NEGATIV) = (Bit(AslResult, 7) = 1)

----------------------------------------------------------------------------
(* Straight-line programs *)

\* the longest straight-line program, in instructions
MaxLine == 3

\* instructions that neither set PC nor write to the program: LDA #1, TAX, INX, STA $10,
\* ADC $0210, PHA, CLD, NOP, TSX, ASL A
LineInstructions ==
    { <<169, 1>>, <<170>>, <<232>>, <<133, 16>>, <<109, 16, 2>>, <<72>>, <<216>>, <<234>>,
      <<186>>, <<10>> }

\* the sequences of at most MaxLine such instructions
Lines == UNION { [1 .. n -> LineInstructions] : n \in 0 .. MaxLine }

\* the bytes of the instructions i .. Len(line) of the line, one after the other
RECURSIVE LineBytes(_, _)
LineBytes(line, i) == IF i > Len(line) THEN << >> ELSE line[i] \o LineBytes(line, i + 1)

\* the offset of instruction i of the line in the program
LineOffset(line, i) == Len(LineBytes(line, 1)) - Len(LineBytes(line, i))

\* load_and_run of the line followed by BRK
LineInput(line) == Input(<< >>, Program(LineBytes(line, 1) \o <<0>>), << >>, 1)

LineInputs == { LineInput(line) : line \in Lines }

InitLines == InitWith(TestInputs \cup LineInputs, {FALSE})
SpecLines == InitLines /\ [][Next]_vars
\* a loop iteration can run: the guard of Step, each of whose steps appends to hist
CanStep == phase \in {"ready", "running"} /\ Len(hist) < MaxSteps
\* the host makes its calls one after the other and the loop of run() never waits: weak
\* fairness of each action, that of Step with ENABLED <<Step>>_vars written as CanStep
LiveLines ==
    /\ SpecLines
    /\ WF_vars(MemWrite) /\ WF_vars(MsbToCarryFlag) /\ WF_vars(Load) /\ WF_vars(Reset)
    /\ ([]<>~CanStep) \/ ([]<><<Step>>_vars)

\* the length of the instruction of the pool (and of LDA $10 of the tests) with opcode op
LineLength(op) ==
    CASE op \in {170, 232, 72, 216, 234, 186, 10} -> 1
      [] op \in {169, 133, 165} -> 2
      [] op = 109 -> 3
      [] OTHER -> 0

\* the offsets of the program's instructions from offset off up to its BRK, which must be
\* the program's last byte; -1 marks a program that is not such a line
RECURSIVE LineStarts(_, _)
LineStarts(program, off) ==
    IF off >= program.len THEN <<-1>>
    ELSE IF program.bytes[off] = 0
         THEN (IF off = program.len - 1 THEN <<off>> ELSE <<-1>>)
         ELSE IF LineLength(program.bytes[off]) = 0 THEN <<-1>>
              ELSE <<off>> \o LineStarts(program, off + LineLength(program.bytes[off]))

\* the host runs a straight-line program by load, reset, run
RunsLine ==
    /\ input.load
    /\ input.resets = 1
    /\ input.patches = << >>
    /\ \A i \in DOMAIN LineStarts(input.program, 0) : LineStarts(input.program, 0)[i] >= 0

\* the loop has returned after the instructions of the line, in address order, and BRK
RanInOrderOf(starts) ==
    /\ phase = "returned"
    /\ Len(hist) = Len(starts)
    /\ \A i \in DOMAIN starts :
        /\ hist[i].raw = input.program.bytes[starts[i]]
        /\ hist[i].pre.program_counter = PRG_ROM_START_ADDR + starts[i]
RanInOrder == RanInOrderOf(LineStarts(input.program, 0))

\* C26: under load_and_run, a program of n instructions that neither set PC nor write into
\* the program, followed by BRK, terminates: the loop eventually returns, having executed
\* exactly those n instructions in address order
C26_StraightLineTerminates == (RunsLine /\ phase = "new") ~> (RunsLine /\ RanInOrder)

----------------------------------------------------------------------------
(* The program counter after a step *)

\* the operand bytes an addressing mode reads
OperandBytes(mode) ==
    CASE mode \in {"Implicit", "Accumulator"} -> 0
      [] mode \in {"Immediate", "ZeroPage", "ZeroPage_X", "ZeroPage_Y", "Relative",
                   "Indirect_X", "Indirect_Y"} -> 1
      [] mode \in {"Absolute", "Absolute_X", "Absolute_Y", "Indirect"} -> 2

\* the last iteration's handler set PC: a jump, a call, a return, or a branch taken
HandlerSetsPC == Last.opcode.mnemonic \in {"Jmp", "Jsr", "Rts", "Rti"} \/ BranchTaken

\* C28: after a step whose handler does not set PC, a branch not taken included, PC is the
\* opcode's address plus the table's length for the opcode; every length of the table is 1
\* plus the operand bytes of the entry's addressing mode; a branch not taken changes
\* nothing but PC
C28_PcAdvance ==
    /\ \A k \in DOMAIN INSTRUCTION_ARRAY :
        INSTRUCTION_ARRAY[k].len = 1 + OperandBytes(INSTRUCTION_ARRAY[k].mode)
    /\ (Completed /\ ~HandlerSetsPC) =>
        /\ program_counter = Last.pre.program_counter + Last.opcode.len
        /\ Last.opcode.mode = "Relative" => StateKept
\* a branch whose predicate is false has moved PC past its displacement byte
C28_Witness ==
    /\ Completed
    /\ Last.opcode.mode = "Relative"
    /\ ~BranchTaken
    /\ program_counter = Last.pre.program_counter + 2

----------------------------------------------------------------------------
(* JSR and RTS *)

\* iteration j was a JSR whose frame the last iteration, an RTS, pops: S is back to its
\* value after the JSR and no stack access in between touched the two bytes JSR pushed
MatchingJsr(j) ==
    /\ hist[j].raw = 32
    /\ Len(StepLog(j)) = 2
    /\ StackPtrAt(j + 1) = Last.pre.stack_ptr
    /\ \A k \in j + 1 .. Len(hist) - 1 : \A i \in DOMAIN StepLog(k) :
            StepLog(k)[i].addr \notin {StepLog(j)[1].addr, StepLog(j)[2].addr}

\* C29: JSR at address a pushes a + 2, high byte first, then low byte, and sets PC to its
\* operand; RTS sets PC to the popped word + 1; so the RTS that matches a JSR at a, the
\* stack balanced in between, resumes at a + 3 with S as before the JSR
C29_JsrRts ==
    /\ (Completed /\ Last.raw = 32) =>
        /\ Len(stack_log) = 2
        /\ stack_log[1] = [op |-> "push", addr |-> STACK_START + Last.pre.stack_ptr,
                           data |-> ((Last.pre.program_counter + 2) % U16) \div 256]
        /\ stack_log[2] = [op |-> "push",
                           addr |-> STACK_START + ((Last.pre.stack_ptr + 255) % 256),
                           data |-> (Last.pre.program_counter + 2) % 256]
        /\ stack_ptr = (Last.pre.stack_ptr + 254) % 256
        /\ program_counter = OperandWord
    /\ (Completed /\ Last.raw = 96) =>
        /\ Len(stack_log) = 2
        /\ program_counter = (from_le_bytes(stack_log[1].data, stack_log[2].data) + 1) % U16
        /\ \A j \in 1 .. Len(hist) - 1 :
            MatchingJsr(j) =>
                /\ program_counter = (hist[j].pre.program_counter + 3) % U16
                /\ stack_ptr = hist[j].pre.stack_ptr

----------------------------------------------------------------------------
(* ADC *)

\* LDA #a; SED or NOP; CLC or SEC; ADC #m
DecimalInputs ==
    { Input(<< >>, Program(<<169, a, d, f, 105, m, 0>>), << >>, 1) :
        a \in ByteSample, m \in ByteSample, d \in {248, 234}, f \in {24, 56} }

InitAdc == InitWith(TestInputs \cup DecimalInputs \cup ArithMemoryInputs, {FALSE})
SpecAdc == InitAdc /\ [][Next]_vars

\* a byte read as two's complement
Signed(v) == IF v >= 128 THEN v - 256 ELSE v
\* the carry the last iteration's instruction ran with
CarryIn == IF contains(Last.pre.status, CARRY) THEN 1 ELSE 0
\* A + m + c of the last iteration's ADC, unsigned and signed
AdcSum == Last.pre.register_a + Last.data + CarryIn
AdcSignedSum == Signed(Last.pre.register_a) + Signed(Last.data) + CarryIn

\* C30: ADC leaves A' = (A + m + c) mod 256, C' = 1 exactly when A + m + c > 255, V' = 1
\* exactly when the signed sum of A, m and c is outside -128..127, which is
\* ((A' ^ m) & (A' ^ A) & 0x80) # 0, and Z, N from A', whatever the D flag, which it keeps
C30_Adc ==
    (Completed /\ Last.opcode.mnemonic = "Adc") =>
        /\ register_a = AdcSum % 256
        /\ Flag(CARRY) = (AdcSum > 255)
        /\ Flag(OVERFLOW) = (AdcSignedSum \notin -128 .. 127)
        /\ Flag(OVERFLOW) =
            (BitAnd(BitAnd(BitXor(register_a, Last.data),
                           BitXor(register_a, Last.pre.register_a)), 128) # 0)
        /\ Flag(ZERO) = (register_a = 0)
        /\ Flag(NEGATIV) = (Bit(register_a, 7) = 1)
        /\ FlagsKeptExcept(CARRY + OVERFLOW + ZERO + NEGATIV)
\* ADC with D set and the carry in has overflowed the signed range without a carry out
C30_Witness ==
    /\ Completed
    /\ Last.opcode.mnemonic = "Adc"
    /\ contains(Last.pre.status, DECIMAL_MODE)
    /\ CarryIn = 1
    /\ AdcSignedSum > 127
    /\ Flag(OVERFLOW)
    /\ ~Flag(CARRY)
    /\ Flag(DECIMAL_MODE)

----------------------------------------------------------------------------
(* SBC as ADC of the complement *)

\* what ADC (m XOR 0xFF) leaves from the state the last iteration's instruction ran in
AdcOfComplement == add_to_accumulator(Last.pre, BitXor(Last.data, 255))
\* A + (m XOR 0xFF) + c of the last iteration's SBC
SbcSum == Last.pre.register_a + (255 - Last.data) + CarryIn

\* C31: SBC m leaves the A, C, V, Z and N that ADC (m XOR 0xFF) leaves from the same state;
\* with carry-in 1 and A >= m the result is A - m with C = 1
C31_SbcIsAdcOfComplement ==
    (Completed /\ Last.opcode.mnemonic = "Sbc") =>
        /\ register_a = AdcOfComplement.register_a
        /\ status = AdcOfComplement.status
        /\ register_a = SbcSum % 256
        /\ Flag(CARRY) = (SbcSum > 255)
        /\ Flag(OVERFLOW) =
            (BitAnd(BitAnd(BitXor(register_a, 255 - Last.data),
                           BitXor(register_a, Last.pre.register_a)), 128) # 0)
        /\ Flag(ZERO) = (register_a = 0)
        /\ Flag(NEGATIV) = (Bit(register_a, 7) = 1)
        /\ (CarryIn = 1 /\ Last.pre.register_a >= Last.data) =>
                register_a = Last.pre.register_a - Last.data /\ Flag(CARRY)
\* SBC of 0x80 from 0x80 with the carry set has left 0 with no borrow
C31_Witness ==
    /\ Completed
    /\ Last.opcode.mnemonic = "Sbc"
    /\ Last.data = 128
    /\ Last.pre.register_a = 128
    /\ CarryIn = 1
    /\ register_a = 0
    /\ Flag(CARRY)
    /\ Flag(ZERO)

----------------------------------------------------------------------------
(* ROR *)

\* the opcode of ROR on the accumulator
RorAccumulator == Last.raw = 106
\* the value the last iteration's ROR rotates, and where its result is after the step
RorOperand == IF RorAccumulator THEN Last.pre.register_a ELSE Last.data
RorResult == IF RorAccumulator THEN register_a ELSE Mem(Last.addr)

\* C32: ROR of v with carry c, on the accumulator or on memory, leaves (v >> 1) with bit 7
\* equal to c in A or in memory, the carry equal to the old bit 0 of v, and Z and N set
\* from the result
C32_Ror ==
    (Completed /\ Last.opcode.mnemonic = "Ror") =>
        /\ RorResult = (RorOperand \div 2) + 128 * CarryIn
        /\ Flag(CARRY) = (RorOperand % 2 = 1)
        /\ Flag(ZERO) = (RorResult = 0)
        /\ Flag(NEGATIV) = (Bit(RorResult, 7) = 1)

----------------------------------------------------------------------------
(* Flag opcodes *)

\* the opcodes that clear a flag and those that set one: CLC, CLD, CLI, CLV; SEC, SED, SEI
ClearOpcodes == {24, 216, 88, 184}
SetOpcodes == {56, 248, 120}

\* the flag of a flag opcode
OwnFlag(raw) ==
    CASE raw \in {24, 56} -> CARRY
      [] raw \in {216, 248} -> DECIMAL_MODE
      [] raw \in {88, 120} -> INTERUPT_DISABLE
      [] raw = 184 -> OVERFLOW

\* C33: a flag opcode clears or sets its own flag and changes no other bit of P, no
\* register and no memory byte
C33_FlagOpcodes ==
    (Completed /\ Last.raw \in ClearOpcodes \cup SetOpcodes) =>
        /\ Flag(OwnFlag(Last.raw)) = (Last.raw \in SetOpcodes)
        /\ FlagsKeptExcept(OwnFlag(Last.raw))
        /\ register_a = Last.pre.register_a
        /\ register_x = Last.pre.register_x
        /\ register_y = Last.pre.register_y
        /\ stack_ptr = Last.pre.stack_ptr
        /\ memory = Last.pre.memory

----------------------------------------------------------------------------
(* The status register on the stack *)

\* the byte the stack holds k places above S before the last iteration
StackByte(k) == array_get(Last.pre.memory, STACK_START + ((Last.pre.stack_ptr + k) % 256))
\* a popped byte as the live P: B clear, U set, the other six flags from the byte
PulledStatus(byte) == BitOr(byte - BitAnd(byte, BREAK), BREAK2)

\* C34: PHP writes P | 0b0011_0000 to the stack, B and U both set in the pushed byte,
\* and leaves the live P unchanged
C34_PhpImage ==
    (Completed /\ Last.raw = 8) =>
        /\ Len(stack_log) = 1
        /\ stack_log[1].op = "push"
        /\ stack_log[1].data = BitOr(Last.pre.status, BREAK + BREAK2)
        /\ Mem(STACK_START + Last.pre.stack_ptr) = BitOr(Last.pre.status, BREAK + BREAK2)
        /\ status = Last.pre.status

\* C35: after PLP the live P has B clear and U set, and its other six flags are those
\* of the popped byte
C35_PlpStatus ==
    (Completed /\ Last.raw = 40) => status = PulledStatus(StackByte(1))

\* C36: RTI pops P, leaving B clear, U set and the other flags from the popped byte, then
\* the low and the high byte of PC; PC is the popped word, nothing added, and S has
\* increased by 3 modulo 256
C36_Rti ==
    (Completed /\ Last.raw = 64) =>
        /\ status = PulledStatus(StackByte(1))
        /\ program_counter = from_le_bytes(StackByte(2), StackByte(3))
        /\ stack_ptr = (Last.pre.stack_ptr + 3) % 256
        /\ Len(stack_log) = 3
        /\ \A k \in 1 .. 3 :
            stack_log[k] = [op |-> "pop",
                            addr |-> STACK_START + ((Last.pre.stack_ptr + k) % 256),
                            data |-> StackByte(k)]
\* RTI has popped a status byte with B set and U clear, and the address 0x060B
C36_Witness ==
    /\ Completed
    /\ Last.raw = 64
    /\ BitAnd(StackByte(1), BREAK) # 0
    /\ BitAnd(StackByte(1), BREAK2) = 0
    /\ ~Flag(BREAK)
    /\ Flag(BREAK2)
    /\ program_counter = 1547

----------------------------------------------------------------------------
(* Register transfers *)

\* TAX, TAY, TXA, TYA, TSX, TXS
TransferOpcodes == {170, 168, 138, 152, 186, 154}

\* the source register of the transfer before the step, and its two registers after it
TransferSource(c) ==
    CASE Last.raw \in {170, 168} -> c.register_a
      [] Last.raw \in {138, 154} -> c.register_x
      [] Last.raw = 152 -> c.register_y
      [] Last.raw = 186 -> c.stack_ptr
TransferDestination ==
    CASE Last.raw \in {170, 186} -> register_x
      [] Last.raw = 168 -> register_y
      [] Last.raw \in {138, 152} -> register_a
      [] Last.raw = 154 -> stack_ptr

\* C37: TAX, TAY, TXA, TYA, TSX and TXS copy the source register to the destination and
\* leave the source unchanged; all but TXS set Z and N from the destination, and TXS
\* changes no flag
C37_Transfers ==
    (Stepped /\ Last.raw \in TransferOpcodes) =>
        /\ halt = "none"
        /\ TransferDestination = TransferSource(Last.pre)
        /\ TransferSource(Self) = TransferSource(Last.pre)
        /\ Last.raw # 154 =>
            /\ Flag(ZERO) = (TransferDestination = 0)
            /\ Flag(NEGATIV) = (Bit(TransferDestination, 7) = 1)
            /\ FlagsKeptExcept(ZERO + NEGATIV)
        /\ Last.raw = 154 => status = Last.pre.status

----------------------------------------------------------------------------
(* stack_push_u16 and stack_pop_u16 *)

\* words pushed on the current CPU besides the return addresses JSR pushes
PushedWords == {0, 255, 256, 4660, 33023, 65280, 65535}

\* the two stack accesses of a word pushed at stack pointer sp, and of its pop
PushWordLog(sp, w) ==
    << [op |-> "push", addr |-> STACK_START + sp, data |-> w \div 256],
       [op |-> "push", addr |-> STACK_START + ((sp + 255) % 256), data |-> w % 256] >>
PopWordLog(sp, w) ==
    << [op |-> "pop", addr |-> STACK_START + ((sp + 255) % 256), data |-> w % 256],
       [op |-> "pop", addr |-> STACK_START + sp, data |-> w \div 256] >>

\* stack_push_u16(w) on c and then stack_pop_u16(): the word comes back, S is restored,
\* and the accesses are high byte, low byte, low byte, high byte
WordRoundTrip(c, w) ==
    /\ stack_push_u16(c, w).stack_ptr = (c.stack_ptr + 254) % 256
    /\ stack_pop_u16(stack_push_u16(c, w)).data = w
    /\ stack_pop_u16(stack_push_u16(c, w)).cpu.stack_ptr = c.stack_ptr
    /\ stack_pop_u16(stack_push_u16(c, w)).cpu.stack_log =
            c.stack_log \o PushWordLog(c.stack_ptr, w) \o PopWordLog(c.stack_ptr, w)

\* the last two iterations were a JSR and the RTS it jumped to
JsrThenRts == Completed /\ Len(hist) >= 2 /\ hist[Len(hist) - 1].raw = 32 /\ Last.raw = 96

\* the return address the JSR of the iteration before the last pushed
ReturnWord == (hist[Len(hist) - 1].pre.program_counter + 2) % U16

\* C38: for every word w and every S, S = 0x00 included, stack_push_u16(w) writes the
\* high byte at 0x0100 + S and then the low byte one below (wrapping in page 0x01), and a
\* following stack_pop_u16() returns w and restores S
C38_WordRoundTrip ==
    /\ halt = "none" => \A w \in PushedWords : WordRoundTrip(Self, w)
    /\ JsrThenRts =>
        /\ StepLog(Len(hist) - 1) = PushWordLog(StackPtrAt(Len(hist) - 1), ReturnWord)
        /\ stack_log = PopWordLog(StackPtrAt(Len(hist) - 1), ReturnWord)
        /\ stack_ptr = StackPtrAt(Len(hist) - 1)

\* JSR with S = 0x00 wrote 0x0100 and then 0x01FF, and the RTS popped the word back
C38_Witness ==
    /\ JsrThenRts
    /\ StackPtrAt(Len(hist) - 1) = 0
    /\ StepLog(Len(hist) - 1)[1].addr = STACK_START
    /\ StepLog(Len(hist) - 1)[2].addr = STACK_MEMORY_END
    /\ from_le_bytes(stack_log[1].data, stack_log[2].data) = ReturnWord
    /\ stack_ptr = 0

----------------------------------------------------------------------------
(* Handlers given an addressing mode they do not support *)

\* the modes JMP has no branch for
JmpUnsupportedModes ==
    {"Immediate", "ZeroPage", "ZeroPage_X", "ZeroPage_Y", "Absolute_X", "Absolute_Y",
     "Indirect_X", "Indirect_Y", "Implicit", "Accumulator", "Relative"}

\* the handler left the CPU `after` failed with UnsupportedAddressingMode and, apart from
\* that, as the current one
RefusedMode(after) ==
    /\ after.halt = "panic"
    /\ after.failure = "UnsupportedAddressingMode"
    /\ after = [Self EXCEPT !.halt = after.halt, !.failure = after.failure]

\* C39: a handler given an addressing mode it does not support fails with
\* UnsupportedAddressingMode instead of acting: STA, STX and STY given Immediate, and JMP
\* given a mode other than Absolute and Indirect, write no memory and change no register
C39_UnsupportedMode ==
    halt = "none" =>
        /\ RefusedMode(sta(Self, "Immediate"))
        /\ RefusedMode(stx(Self, "Immediate"))
        /\ RefusedMode(sty(Self, "Immediate"))
        /\ \A mode \in JmpUnsupportedModes : RefusedMode(jmp(Self, mode))

====
